---- MODULE Spec2Model ----
(***************************************************************************)
(* Snow Owl Chase: the simulation core (Player, Owl, Spawner, Collision,   *)
(* Game tick) as state machines.                                           *)
(*                                                                         *)
(* Units.  Time is in whole milliseconds (dtMs = dt * 1000).  Threat is in *)
(* millionths (1000000 = 1.0), so that dt*0.08, dt*0.012, dt*0.025 and     *)
(* dt*0.06 are the integers 80, 12, 25 and 60 per millisecond.  Speeds are *)
(* in thousandths of a pixel per second, positions in hundredths of a      *)
(* pixel, multipliers in thousandths.  Where the JavaScript computes a     *)
(* non-integer, the model rounds down.                                     *)
(***************************************************************************)
EXTENDS Integers, Sequences, FiniteSets, TLC

VARIABLES
    player,     \* the Player object (Player.js)
    psteps,     \* number of Player operations applied (bounded exploration)
    pop,        \* the last Player operation: its name, argument and the player before it
    game,       \* the Game object's gameplay fields (game.js)
    owl,        \* the Owl object of the current level (Owl.js)
    octx,       \* Owl in isolation: the level's difficulty and warning multiplier
    osteps,     \* Owl in isolation: number of operations applied (bounded exploration)
    oop,        \* Owl in isolation: the last method call, the owl before it, ms since
    timers,     \* pending setTimeout callbacks: remaining wall-clock ms
    frames,     \* number of animation frames run (bounded exploration)
    runA,       \* first of two runs started from the same seed
    runB,       \* second of two runs started from the same seed
    ticks,      \* number of lock-step ticks of the two runs
    pat,        \* one call of Spawner._spawnObstaclePattern: input and result
    coll        \* one call of CollisionSystem.checkObstacles: input and result

vars == <<player, psteps, pop, game, owl, octx, osteps, oop, timers, frames, runA, runB, ticks, pat, coll>>

(***************************************************************************)
(* Bounds of the exploration                                               *)
(***************************************************************************)
MaxPSteps == 6
MaxOSteps == 5
MaxHits == 3
MaxFrames == 4
MaxHold == 4
MaxTicks == 85
MaxPairSteps == 4
MaxSeeds == 40
MaxObs == 2
MaxStunTime == 3400
MaxContacts == 3
FrameWrap == 2
MaxLevel == 4
MaxRunHits == 1
MaxBells == 1
MaxPickupTicks == 10
MaxDodgeTicks == 22
MaxDodgeKeys == 2
MaxSwoopTicks == 90
MaxSwoopHits == 3
MaxUpgrades == 3
MaxInputOps == 5
MaxInputTime == 300
MaxAttrTicks == 6
MaxSnatchTicks == 125
MaxFastFrames == 2
MaxPauseFrames == 8
MaxContSteps == 7
MaxContactTicks == 3

(***************************************************************************)
(* utils.js                                                                *)
(***************************************************************************)
Min(a, b) == IF a < b THEN a ELSE b
Max(a, b) == IF a > b THEN a ELSE b

clamp(v, lo, hi) == Max(lo, Min(hi, v))

\* lerp(a, b, t) with t in thousandths
lerp(a, b, t) == a + ((b - a) * t) \div 1000

Abs(a) == IF a < 0 THEN 0 - a ELSE a

(***************************************************************************)
(* game.js: canvas and lanes                                               *)
(***************************************************************************)
CanvasW == 800
CanvasH == 640
LANE_COUNT == 5
LaneMargin == 80

\* Game._computeLanes, in hundredths of a pixel, lanes indexed 0..4
lanePositions == [i \in 0..(LANE_COUNT - 1) |->
    100 * (LaneMargin + i * ((CanvasW - LaneMargin * 2) \div (LANE_COUNT - 1)))]

\* the frame deltas (ms) the browser may deliver; 250 is a stalled frame
DtSet == {16, 100, 250}

\* Game.update: "if (dt > 0.1) dt = 0.1"
CapDt(dt) == IF dt > 100 THEN 100 ELSE dt

(***************************************************************************)
(* Player.js                                                               *)
(***************************************************************************)
\* CHARACTERS[i].stats, in thousandths; a missing stat is 0 (falsy)
CHARACTERS == <<
  [speedMult |-> 1120, stunMult |-> 1200, jumpHangMult |-> 920,
   dashCooldownMult |-> 850, shadowWarningMult |-> 1000, pickupFreqMult |-> 1000,
   scoreMult |-> 1000, invulMult |-> 1000, jumpHeightMult |-> 0, accelMult |-> 0,
   dashDistMult |-> 0],
  [speedMult |-> 920, stunMult |-> 1000, jumpHangMult |-> 1150,
   dashCooldownMult |-> 1200, shadowWarningMult |-> 1000, pickupFreqMult |-> 1000,
   scoreMult |-> 1000, invulMult |-> 1000, jumpHeightMult |-> 1250, accelMult |-> 0,
   dashDistMult |-> 0],
  [speedMult |-> 1000, stunMult |-> 700, jumpHangMult |-> 1000,
   dashCooldownMult |-> 1000, shadowWarningMult |-> 1000, pickupFreqMult |-> 1000,
   scoreMult |-> 1000, invulMult |-> 1400, jumpHeightMult |-> 0, accelMult |-> 900,
   dashDistMult |-> 0],
  [speedMult |-> 1000, stunMult |-> 1000, jumpHangMult |-> 1000,
   dashCooldownMult |-> 1000, shadowWarningMult |-> 1300, pickupFreqMult |-> 1200,
   scoreMult |-> 900, invulMult |-> 1000, jumpHeightMult |-> 0, accelMult |-> 0,
   dashDistMult |-> 850] >>

NoStats == [speedMult |-> 0, stunMult |-> 0, jumpHangMult |-> 0,
   dashCooldownMult |-> 0, shadowWarningMult |-> 0, pickupFreqMult |-> 0,
   scoreMult |-> 0, invulMult |-> 0, jumpHeightMult |-> 0, accelMult |-> 0,
   dashDistMult |-> 0]

\* JavaScript "stat || 1"
OrOne(m) == IF m = 0 THEN 1000 ELSE m

\* a variant that reads the character's stats whatever the attribute mode
NewPlayerAlwaysStats(charIdx, attributesMode) ==
    LET stats == CHARACTERS[charIdx + 1]
        base  == 280 * OrOne(stats.speedMult)
    IN [ w |-> 28, h |-> 44,
         lane |-> 2, targetLane |-> 2, x |-> lanePositions[2], lerpSpeed |-> 8,
         baseSpeed |-> base, speed |-> base,
         jumping |-> FALSE, jumpVY |-> 0, jumpY |-> 0,
         jumpPower |-> 0 - 520 * OrOne(stats.jumpHeightMult),
         hangMultiplier |-> OrOne(stats.jumpHangMult), jumpCooldown |-> 0,
         stunned |-> FALSE, stunTimer |-> 0, stunDuration |-> 0,
         stunMult |-> OrOne(stats.stunMult),
         invulTimer |-> 0, invulDuration |-> (1200 * OrOne(stats.invulMult)) \div 1000,
         accelMult |-> OrOne(stats.accelMult),
         dashing |-> FALSE, dashTimer |-> 0, dashCooldown |-> 0,
         dashCooldownMax |-> (3000 * OrOne(stats.dashCooldownMult)) \div 1000,
         dashDuration |-> 250, dashDistMult |-> OrOne(stats.dashDistMult),
         hasAxe |-> FALSE, stunCount |-> 0, swoopsDodged |-> 0 ]

\* Player constructor followed by applyLanePositions (as Game.startLevel does)
NewPlayer(charIdx, attributesMode) ==
    LET stats == IF attributesMode THEN CHARACTERS[charIdx + 1] ELSE NoStats
        base  == 280 * OrOne(stats.speedMult)
    IN [ w |-> 28, h |-> 44,
         lane |-> 2, targetLane |-> 2, x |-> lanePositions[2], lerpSpeed |-> 8,
         baseSpeed |-> base, speed |-> base,
         jumping |-> FALSE, jumpVY |-> 0, jumpY |-> 0,
         jumpPower |-> 0 - 520 * OrOne(stats.jumpHeightMult),
         hangMultiplier |-> OrOne(stats.jumpHangMult), jumpCooldown |-> 0,
         stunned |-> FALSE, stunTimer |-> 0, stunDuration |-> 0,
         stunMult |-> OrOne(stats.stunMult),
         invulTimer |-> 0, invulDuration |-> (1200 * OrOne(stats.invulMult)) \div 1000,
         accelMult |-> OrOne(stats.accelMult),
         dashing |-> FALSE, dashTimer |-> 0, dashCooldown |-> 0,
         dashCooldownMax |-> (3000 * OrOne(stats.dashCooldownMult)) \div 1000,
         dashDuration |-> 250, dashDistMult |-> OrOne(stats.dashDistMult),
         hasAxe |-> FALSE, stunCount |-> 0, swoopsDodged |-> 0 ]

moveLeftNoClamp(p) ==
    IF p.stunned THEN p ELSE [p EXCEPT !.targetLane = p.targetLane - 1]

moveLeft(p) ==
    IF p.stunned THEN p
    ELSE [p EXCEPT !.targetLane = clamp(p.targetLane - 1, 0, 4)]

moveRight(p) ==
    IF p.stunned THEN p
    ELSE [p EXCEPT !.targetLane = clamp(p.targetLane + 1, 0, 4)]

jump(p) ==
    IF ~p.jumping /\ ~p.stunned /\ p.jumpCooldown <= 0
    THEN [p EXCEPT !.jumping = TRUE, !.jumpVY = p.jumpPower, !.jumpCooldown = 100]
    ELSE p

dash(p) ==
    IF p.dashCooldown <= 0 /\ ~p.stunned /\ ~p.dashing
    THEN [p EXCEPT !.dashing = TRUE, !.dashTimer = p.dashDuration,
                   !.dashCooldown = p.dashCooldownMax,
                   !.speed = (((p.baseSpeed * 18) \div 10) * p.dashDistMult) \div 1000]
    ELSE p

useAxe(p) == IF p.hasAxe THEN [p EXCEPT !.hasAxe = FALSE] ELSE p

stunRestarts(p, durationMs) ==
    IF p.invulTimer > 0 THEN p
    ELSE [p EXCEPT !.stunned = TRUE,
                   !.stunDuration = (durationMs * p.stunMult) \div 1000,
                   !.stunTimer = (durationMs * p.stunMult) \div 1000,
                   !.speed = (p.baseSpeed * 4) \div 10,
                   !.stunCount = p.stunCount + 1]

stunWhileInvul(p, durationMs) ==
    IF p.stunned THEN p
    ELSE [p EXCEPT !.stunned = TRUE,
                   !.stunDuration = (durationMs * p.stunMult) \div 1000,
                   !.stunTimer = (durationMs * p.stunMult) \div 1000,
                   !.speed = (p.baseSpeed * 4) \div 10,
                   !.stunCount = p.stunCount + 1]

\* a variant that brings the player to a halt
stunStopsPlayer(p, durationMs) ==
    IF p.invulTimer > 0 \/ p.stunned THEN p
    ELSE [p EXCEPT !.stunned = TRUE,
                   !.stunDuration = (durationMs * p.stunMult) \div 1000,
                   !.stunTimer = (durationMs * p.stunMult) \div 1000,
                   !.speed = 0,
                   !.stunCount = p.stunCount + 1]

stun(p, durationMs) ==
    IF p.invulTimer > 0 \/ p.stunned THEN p
    ELSE [p EXCEPT !.stunned = TRUE,
                   !.stunDuration = (durationMs * p.stunMult) \div 1000,
                   !.stunTimer = (durationMs * p.stunMult) \div 1000,
                   !.speed = (p.baseSpeed * 4) \div 10,
                   !.stunCount = p.stunCount + 1]

PlayerStunStepInvulByStun(p, dtMs) ==
    IF p.stunned
    THEN IF p.stunTimer - dtMs <= 0
         THEN [p EXCEPT !.stunTimer = p.stunTimer - dtMs,
                        !.stunned = FALSE,
                        !.invulTimer = p.stunDuration]
         ELSE [p EXCEPT !.stunTimer = p.stunTimer - dtMs]
    ELSE p

\* Player.update, "Stun"
PlayerStunStep(p, dtMs) ==
    IF p.stunned
    THEN IF p.stunTimer - dtMs <= 0
         THEN [p EXCEPT !.stunTimer = p.stunTimer - dtMs,
                        !.stunned = FALSE,
                        !.invulTimer = p.invulDuration]
         ELSE [p EXCEPT !.stunTimer = p.stunTimer - dtMs]
    ELSE p

\* Player.update, "Invulnerability"
PlayerInvulStep(p, dtMs) ==
    IF p.invulTimer > 0
    THEN [p EXCEPT !.invulTimer = p.invulTimer - dtMs,
                   !.speed = lerp(p.speed, p.baseSpeed, (3 * p.accelMult * dtMs) \div 1000)]
    ELSE p

\* Player.update, "Dash"
PlayerDashStep(p, dtMs) ==
    IF p.dashing
    THEN IF p.dashTimer - dtMs <= 0
         THEN [p EXCEPT !.dashTimer = p.dashTimer - dtMs,
                        !.dashing = FALSE, !.speed = p.baseSpeed]
         ELSE [p EXCEPT !.dashTimer = p.dashTimer - dtMs]
    ELSE p

\* Player.update, "Dash cooldown" and "Jump cooldown"
PlayerCooldownStep(p, dtMs) ==
    [p EXCEPT
       !.dashCooldown = IF p.dashCooldown > 0 THEN p.dashCooldown - dtMs ELSE p.dashCooldown,
       !.jumpCooldown = IF p.jumpCooldown > 0 THEN p.jumpCooldown - dtMs ELSE p.jumpCooldown]

\* Player.update, "Jump physics": the velocity after the tick's gravity
\* (velocities in 1/1000 px/s, offsets in 1/1000 px)
JumpVelocity(p, dtMs) ==
    p.jumpVY + (1400 * dtMs * 1000)
                   \div (IF Abs(p.jumpVY) < 200000 THEN p.hangMultiplier ELSE 1000)

PlayerLand(p, vy, jy) ==
    IF jy >= 0
    THEN [p EXCEPT !.jumpY = 0, !.jumping = FALSE, !.jumpVY = 0]
    ELSE [p EXCEPT !.jumpY = jy, !.jumpVY = vy]

PlayerFall(p, vy, dtMs) == PlayerLand(p, vy, p.jumpY + (vy * dtMs) \div 1000)

PlayerJumpStep(p, dtMs) ==
    IF p.jumping THEN PlayerFall(p, JumpVelocity(p, dtMs), dtMs) ELSE p

\* Player.update, "Smooth lane movement" and "Sync lane"
PlayerSnap(p, targetX, nx) ==
    IF Abs(nx - targetX) < 100
    THEN [p EXCEPT !.x = targetX, !.lane = p.targetLane]
    ELSE [p EXCEPT !.x = nx]

PlayerLaneStep(p, dtMs) ==
    PlayerSnap(p, lanePositions[p.targetLane],
               lerp(p.x, lanePositions[p.targetLane], p.lerpSpeed * dtMs))

\* Player.update, the gameplay part (footprints are drawing state)
Player_update(p, dtMs) ==
    PlayerLaneStep(
      PlayerJumpStep(
        PlayerCooldownStep(
          PlayerDashStep(
            PlayerInvulStep(
              PlayerStunStep(p, dtMs), dtMs), dtMs), dtMs), dtMs), dtMs)

\* Player.getHitbox, in hundredths of a pixel (groundY = ch - 100)
PlayerY == 100 * (CanvasH - 100)

Player_getHitbox(p) ==
    [ x |-> p.x - (p.w * 100) \div 2 + 600,
      y |-> PlayerY + p.jumpY \div 10 - p.h * 100 + 800,
      w |-> p.w * 100 - 1200,
      h |-> p.h * 100 - 800 ]

(***************************************************************************)
(* Owl.js                                                                  *)
(*                                                                         *)
(* The owl record holds the gameplay fields of an Owl.  swoopTimeout is    *)
(* the callback scheduled by setTimeout in _startSwoop: the wall-clock ms  *)
(* left before it runs, or NoTimeout when none is scheduled (never set,    *)
(* already run, or cleared by clearTimeout).  A swoop line keeps its x and *)
(* its alpha (thousandths); eyes, wings and screech are drawing and audio. *)
(***************************************************************************)
NoTimeout == 0 - 1

TRIGGER_THREAT == 450000
SWOOP_COOLDOWN == 8000
THREAT_ONE == 1000000

NewOwl ==
    [ threat |-> 100000,
      swoopActive |-> FALSE, swoopPhase |-> "none",
      swoopTimer |-> 0, swoopDuration |-> 0,
      shadowWarningDuration |-> 2000,
      shadows |-> << >>,
      swoopCooldown |-> 0, swoopCooldownBase |-> 8000,
      swoopLines |-> << >>,
      swoopTimeout |-> NoTimeout ]

increaseThreatNoClamp(o, amount) == [o EXCEPT !.threat = o.threat + amount]

increaseThreat(o, amount) ==
    [o EXCEPT !.threat = clamp(o.threat + amount, 0, THREAT_ONE)]

decreaseThreat(o, amount) ==
    [o EXCEPT !.threat = clamp(o.threat - amount, 0, THREAT_ONE)]

\* the values Math.random() decides in one _startSwoop: a second shadow is
\* drawn only at difficulty >= 3, a decoy only at difficulty >= 4
SwoopRandom(difficulty) ==
    { r \in [two : BOOLEAN, fake : BOOLEAN, lane1 : 0..4, lane2 : 0..4] :
        /\ (difficulty < 3 => ~r.two)
        /\ (~r.two => r.lane2 = 0 /\ ~r.fake)
        /\ (difficulty < 4 => ~r.fake) }

NoRandom == [two |-> FALSE, fake |-> FALSE, lane1 |-> 0, lane2 |-> 0]

\* Owl._startSwoop; playerX/playerY are only captured for the strike's drawing
Owl_startSwoop(o, difficulty, shadowWarnMult, rnd) ==
    LET warnDur == (o.shadowWarningDuration * shadowWarnMult)
                       \div (10 * (100 + difficulty * 15))
        numShadows == IF difficulty >= 3 THEN (IF rnd.two THEN 2 ELSE 1) ELSE 1
        shadowSize == 50 + difficulty * 8
        mk(i) == [ x |-> lanePositions[IF i = 1 THEN rnd.lane1 ELSE rnd.lane2],
                   lane |-> IF i = 1 THEN rnd.lane1 ELSE rnd.lane2,
                   w |-> shadowSize,
                   timer |-> warnDur, maxTimer |-> warnDur,
                   isFake |-> (difficulty >= 4 /\ i > 1 /\ rnd.fake) ]
    IN [o EXCEPT !.swoopActive = TRUE, !.swoopPhase = "shadow",
                 !.shadows = [i \in 1..numShadows |-> mk(i)],
                 !.swoopDuration = warnDur, !.swoopTimer = warnDur,
                 !.swoopTimeout = warnDur]

\* the swoop trigger of Owl.update, evaluated after the cooldown has run down
SwoopTriggers(o, dtMs) ==
    LET cd == IF o.swoopCooldown > 0 THEN o.swoopCooldown - dtMs ELSE o.swoopCooldown
    IN ~o.swoopActive /\ cd <= 0 /\ o.threat >= TRIGGER_THREAT

Owl_update(o, dtMs, difficulty, shadowWarnMult, rnd) ==
    LET cd == IF o.swoopCooldown > 0 THEN o.swoopCooldown - dtMs ELSE o.swoopCooldown
        sh == [i \in 1..Len(o.shadows) |->
                  [o.shadows[i] EXCEPT !.timer = o.shadows[i].timer - dtMs]]
        faded == [i \in 1..Len(o.swoopLines) |->
                  [o.swoopLines[i] EXCEPT !.alpha = o.swoopLines[i].alpha - 2 * dtMs]]
        sl == SelectSeq(faded, LAMBDA l : l.alpha > 0)
        o1 == [o EXCEPT !.swoopCooldown = cd, !.shadows = sh, !.swoopLines = sl]
    IN IF ~o1.swoopActive /\ o1.swoopCooldown <= 0 /\ o1.threat >= TRIGGER_THREAT
       THEN Owl_startSwoop(o1, difficulty, shadowWarnMult, rnd)
       ELSE o1

\* a variant that strikes under every shadow, decoys included
Owl_executeSwoopsAllShadows(o) ==
    IF ~o.swoopActive THEN o
    ELSE LET strikes == [i \in 1..Len(o.shadows) |-> [x |-> o.shadows[i].x, alpha |-> 1000]]
         IN [o EXCEPT !.swoopLines = o.swoopLines \o strikes,
                      !.shadows = << >>,
                      !.swoopActive = FALSE,
                      !.swoopPhase = "none",
                      !.swoopCooldown = o.swoopCooldownBase]

\* a variant that starts no cooldown
Owl_executeSwoopsNoCooldown(o) ==
    IF ~o.swoopActive THEN o
    ELSE LET real == SelectSeq(o.shadows, LAMBDA s : ~s.isFake)
             strikes == [i \in 1..Len(real) |-> [x |-> real[i].x, alpha |-> 1000]]
         IN [o EXCEPT !.swoopLines = o.swoopLines \o strikes,
                      !.shadows = << >>,
                      !.swoopActive = FALSE,
                      !.swoopPhase = "none"]

\* Owl._executeSwoops, the callback of the timeout
Owl_executeSwoops(o) ==
    IF ~o.swoopActive THEN o
    ELSE LET real == SelectSeq(o.shadows, LAMBDA s : ~s.isFake)
             strikes == [i \in 1..Len(real) |-> [x |-> real[i].x, alpha |-> 1000]]
         IN [o EXCEPT !.swoopLines = o.swoopLines \o strikes,
                      !.shadows = << >>,
                      !.swoopActive = FALSE,
                      !.swoopPhase = "none",
                      !.swoopCooldown = o.swoopCooldownBase]

cancelSwoopListsOnly(o) == [o EXCEPT !.shadows = << >>, !.swoopLines = << >>]

cancelSwoopKeepsLines(o) ==
    [o EXCEPT !.swoopTimeout = NoTimeout,
              !.swoopActive = FALSE, !.swoopPhase = "none", !.shadows = << >>]

\* a variant that forgets clearTimeout
cancelSwoopKeepsTimeout(o) ==
    [o EXCEPT !.swoopActive = FALSE, !.swoopPhase = "none",
              !.shadows = << >>, !.swoopLines = << >>]

cancelSwoop(o) ==
    [o EXCEPT !.swoopTimeout = NoTimeout,
              !.swoopActive = FALSE,
              !.swoopPhase = "none",
              !.shadows = << >>,
              !.swoopLines = << >>]

\* the browser's timer for this owl: ms of wall-clock time pass, and the
\* scheduled callback runs once its delay has elapsed
Owl_timePasses(o, ms) ==
    IF o.swoopTimeout = NoTimeout THEN o
    ELSE IF o.swoopTimeout - ms <= 0
         THEN Owl_executeSwoops([o EXCEPT !.swoopTimeout = NoTimeout])
         ELSE [o EXCEPT !.swoopTimeout = o.swoopTimeout - ms]

\* Owl.isPlayerInShadow (hundredths of a pixel; shadow y = playerY - 30, h = w/2)
isPlayerInShadow(o, hb) ==
    \E i \in 1..Len(o.shadows) :
        LET s == o.shadows[i]
            sw2 == s.w * 50
            sh2 == s.w * 25
            sy == PlayerY - 3000
        IN /\ ~s.isFake
           /\ hb.x < s.x + sw2
           /\ hb.x + hb.w > s.x - sw2
           /\ hb.y < sy + sh2
           /\ hb.y + hb.h > sy - sh2

\* Owl.checkSwoopCapture
checkSwoopCapture(o, hb) ==
    \E i \in 1..Len(o.swoopLines) :
        /\ o.swoopLines[i].alpha > 700
        /\ Abs(hb.x + hb.w \div 2 - o.swoopLines[i].x) < 3000

(***************************************************************************)
(* Owl operations in isolation: any caller, any order                      *)
(***************************************************************************)
\* Math.min(level, 8) for levels 1.., and the characters' shadowWarningMult
Difficulties == {1, 4, 8}
WarnMults == {1000, 1300}

\* the amounts Game passes: dt*0.08, dt*0.06, 0.12 up; dt*0.012, dt*0.025, 0.1 down
\* for a 100 ms tick
STUN_HIT_THREAT == 120000
WIND_GUST_THREAT == 100000
IncreaseAmounts == {80 * 100, 60 * 100, STUN_HIT_THREAT}
DecreaseAmounts == {12 * 100, 25 * 100, WIND_GUST_THREAT}

\* n successive calls, as the loop over a tick's hits makes them
RECURSIVE increaseThreatTimes(_, _, _)
increaseThreatTimes(o, amount, n) ==
    IF n = 0 THEN o ELSE increaseThreatTimes(increaseThreat(o, amount), amount, n - 1)

\* wall-clock waits: a frame, a slow frame, a stalled or backgrounded tab
WaitSet == {100, 2000}

InitOwl ==
    /\ player = NewPlayer(0, FALSE)
    /\ psteps = 0
    /\ pop = [op |-> "new", arg |-> 0, before |-> player]
    /\ game = [state |-> "title"]
    /\ owl = NewOwl
    /\ octx \in [difficulty : Difficulties, shadowWarnMult : WarnMults]
    /\ osteps = 0
    /\ oop = [op |-> "new", arg |-> 0, before |-> NewOwl, elapsed |-> 0]
    /\ timers = << >>
    /\ frames = 0
    /\ runA = << >>
    /\ runB = << >>
    /\ ticks = 0
    /\ pat = << >>
    /\ coll = << >>

OCall(name, arg, o) ==
    /\ osteps < MaxOSteps
    /\ owl' = o
    /\ osteps' = osteps + 1
    /\ oop' = [op |-> name, arg |-> arg, before |-> owl, elapsed |-> 0]
    /\ UNCHANGED <<player, psteps, pop, game, octx, timers, frames, runA, runB, ticks, pat, coll>>

\* a frame of the playing game: the time since the last frame has passed
\* (timers first), then Owl.update runs with the capped delta
OUpdate ==
    \E rdt \in WaitSet :
      LET o1 == Owl_timePasses(owl, rdt)
      IN \E rnd \in (IF SwoopTriggers(o1, CapDt(rdt)) THEN SwoopRandom(octx.difficulty)
                      ELSE {NoRandom}) :
           OCall("update", CapDt(rdt), Owl_update(o1, CapDt(rdt), octx.difficulty,
                                      octx.shadowWarnMult, rnd))

\* one call per tick for the stunned and in-shadow rises, one call per stun
\* hit of the tick
OIncreaseThreat ==
    \E a \in IncreaseAmounts, n \in 1..MaxHits :
        /\ (a # STUN_HIT_THREAT => n = 1)
        /\ OCall("increaseThreat", a * n, increaseThreatTimes(owl, a, n))

ODecreaseThreat == \E a \in DecreaseAmounts : OCall("decreaseThreat", a, decreaseThreat(owl, a))

OCancelSwoop == OCall("cancelSwoop", 0, cancelSwoop(owl))

\* Game.startLevel: a new Owl replaces the old one
ONewOwl == OCall("new", 0, NewOwl)

\* time passes with no call into the owl (game over, level complete, paused)
OWait ==
    \E ms \in WaitSet :
        /\ osteps < MaxOSteps
        /\ owl' = Owl_timePasses(owl, ms)
        /\ osteps' = osteps + 1
        /\ oop' = [oop EXCEPT !.elapsed = oop.elapsed + ms]
        /\ UNCHANGED <<player, psteps, pop, game, octx, timers, frames, runA, runB, ticks, pat, coll>>

NextOwl == OUpdate \/ OIncreaseThreat \/ ODecreaseThreat \/ OCancelSwoop \/ ONewOwl \/ OWait

SpecOwl == InitOwl /\ [][NextOwl]_vars

\* C1: in every reachable state the owl's threat is within [0,1]
C1_ThreatInRange == owl.threat >= 0 /\ owl.threat <= THREAT_ONE

\* an increase was cut off at 1.0, or a decrease at 0
C1_Witness ==
    \/ oop.op = "increaseThreat" /\ oop.before.threat + oop.arg > THREAT_ONE
          /\ owl.threat = THREAT_ONE
    \/ oop.op = "decreaseThreat" /\ oop.before.threat - oop.arg < 0
          /\ owl.threat = 0

\* C3: after cancelSwoop is called during a warning phase, shadows and strike
\* lines are empty and stay empty however much time passes, and the scheduled
\* continuation changes neither swoopPhase nor swoopCooldown
C3_CancelStopsSwoop ==
    (oop.op = "cancelSwoop" /\ oop.before.swoopPhase = "shadow") =>
        /\ owl.shadows = << >>
        /\ owl.swoopLines = << >>
        /\ owl.swoopPhase = "none"
        /\ owl.swoopCooldown = oop.before.swoopCooldown

\* time runs past the moment the cancelled warning would have executed
C3_Witness ==
    /\ oop.op = "cancelSwoop"
    /\ oop.before.swoopPhase = "shadow"
    /\ Len(oop.before.shadows) > 0
    /\ oop.before.swoopTimeout # NoTimeout
    /\ oop.elapsed > oop.before.swoopTimeout

\* C4: cancelSwoop is idempotent and total: in whatever state it is called,
\* also with no swoop pending, it leaves swoopActive false, phase 'none', no
\* shadows and no strike lines, and a second call changes nothing
CancelledState(o) ==
    /\ ~o.swoopActive
    /\ o.swoopPhase = "none"
    /\ o.shadows = << >>
    /\ o.swoopLines = << >>

C4_CancelIdempotent ==
    oop.op = "cancelSwoop" => (CancelledState(owl) /\ cancelSwoop(owl) = owl)

\* cancelSwoop called a second time, and called after a swoop has executed
C4_Witness ==
    /\ oop.op = "cancelSwoop"
    /\ oop.before.swoopTimeout = NoTimeout
    /\ ~oop.before.swoopActive
    /\ oop.before.swoopCooldown > 0

(***************************************************************************)
(* Obstacle.js                                                             *)
(*                                                                         *)
(* Sizes in pixels, positions in hundredths of a pixel; y is the bottom    *)
(* edge.  isEvil is decided by Math.random() in the constructor.           *)
(***************************************************************************)
OBSTACLE_TYPES ==
    {"log", "snowman", "tree", "snowball", "ice_patch", "thin_ice", "snowdrift", "branch"}

\* Obstacle._configure
ObstacleConfig(type) ==
    CASE type = "log"       -> [w |-> 56, h |-> 20, canJump |-> TRUE,  stunDuration |-> 1000]
      [] type = "snowman"   -> [w |-> 30, h |-> 52, canJump |-> FALSE, stunDuration |-> 1200]
      [] type = "tree"      -> [w |-> 34, h |-> 80, canJump |-> FALSE, stunDuration |-> 800]
      [] type = "snowball"  -> [w |-> 44, h |-> 44, canJump |-> TRUE,  stunDuration |-> 1400]
      [] type = "ice_patch" -> [w |-> 80, h |-> 24, canJump |-> FALSE, stunDuration |-> 0]
      [] type = "thin_ice"  -> [w |-> 60, h |-> 20, canJump |-> FALSE, stunDuration |-> 500]
      [] type = "snowdrift" -> [w |-> 90, h |-> 32, canJump |-> TRUE,  stunDuration |-> 0]
      [] type = "branch"    -> [w |-> 60, h |-> 14, canJump |-> TRUE,  stunDuration |-> 700]

\* Obstacle constructor; projectiles are the positions of the active snowballs
NewObstacle(type, lane, x, y, isEvil) ==
    LET c == ObstacleConfig(type)
    IN [ type |-> type, lane |-> lane, x |-> x, y |-> y, active |-> TRUE,
         w |-> c.w, h |-> c.h, canJump |-> c.canJump, stunDuration |-> c.stunDuration,
         isEvil |-> (type = "snowman" /\ isEvil),
         triggered |-> FALSE,
         projectiles |-> << >> ]

Obstacle_getHitbox(ob) ==
    [ x |-> ob.x - ob.w * 50, y |-> ob.y - ob.h * 100, w |-> ob.w * 100, h |-> ob.h * 100 ]

aabbCollide(a, b) ==
    /\ a.x < b.x + b.w
    /\ a.x + a.w > b.x
    /\ a.y < b.y + b.h
    /\ a.y + a.h > b.y

NoResult == [hit |-> FALSE, stun |-> FALSE, stunDur |-> 0, chopable |-> FALSE,
             slowSteering |-> FALSE, slowSpeed |-> FALSE]

checkCollisionTreeNotChopable(ob, hb, playerJumping) ==
    IF ~aabbCollide(hb, Obstacle_getHitbox(ob)) THEN NoResult
    ELSE IF playerJumping /\ ob.canJump THEN NoResult
    ELSE CASE ob.type = "ice_patch" ->
                [NoResult EXCEPT !.hit = TRUE, !.slowSteering = TRUE]
           [] ob.type = "snowdrift" ->
                [NoResult EXCEPT !.hit = TRUE, !.slowSpeed = TRUE]
           [] ob.type = "thin_ice" ->
                [NoResult EXCEPT !.hit = TRUE, !.stun = TRUE,
                                 !.stunDur = ob.stunDuration, !.slowSpeed = TRUE]
           [] ob.type = "snowman" ->
                IF ~ob.isEvil THEN NoResult
                ELSE [NoResult EXCEPT !.hit = TRUE, !.stun = TRUE,
                                      !.stunDur = ob.stunDuration]
           [] OTHER ->
                [NoResult EXCEPT !.hit = TRUE, !.stun = TRUE,
                                 !.stunDur = ob.stunDuration]

checkCollisionJumpIgnored(ob, hb, playerJumping) ==
    IF ~aabbCollide(hb, Obstacle_getHitbox(ob)) THEN NoResult
    ELSE CASE ob.type = "ice_patch" ->
                [NoResult EXCEPT !.hit = TRUE, !.slowSteering = TRUE]
           [] ob.type = "snowdrift" ->
                [NoResult EXCEPT !.hit = TRUE, !.slowSpeed = TRUE]
           [] ob.type = "thin_ice" ->
                [NoResult EXCEPT !.hit = TRUE, !.stun = TRUE,
                                 !.stunDur = ob.stunDuration, !.slowSpeed = TRUE]
           [] ob.type = "snowman" ->
                IF ~ob.isEvil THEN NoResult
                ELSE [NoResult EXCEPT !.hit = TRUE, !.stun = TRUE,
                                      !.stunDur = ob.stunDuration]
           [] ob.type = "tree" ->
                [NoResult EXCEPT !.hit = TRUE, !.stun = TRUE,
                                 !.stunDur = ob.stunDuration, !.chopable = TRUE]
           [] OTHER ->
                [NoResult EXCEPT !.hit = TRUE, !.stun = TRUE,
                                 !.stunDur = ob.stunDuration]

\* Obstacle.checkCollision: the hit result (hit = FALSE stands for null)
checkCollision(ob, hb, playerJumping) ==
    IF ~aabbCollide(hb, Obstacle_getHitbox(ob)) THEN NoResult
    ELSE IF playerJumping /\ ob.canJump THEN NoResult
    ELSE CASE ob.type = "ice_patch" ->
                [NoResult EXCEPT !.hit = TRUE, !.slowSteering = TRUE]
           [] ob.type = "snowdrift" ->
                [NoResult EXCEPT !.hit = TRUE, !.slowSpeed = TRUE]
           [] ob.type = "thin_ice" ->
                [NoResult EXCEPT !.hit = TRUE, !.stun = TRUE,
                                 !.stunDur = ob.stunDuration, !.slowSpeed = TRUE]
           [] ob.type = "snowman" ->
                IF ~ob.isEvil THEN NoResult
                ELSE [NoResult EXCEPT !.hit = TRUE, !.stun = TRUE,
                                      !.stunDur = ob.stunDuration]
           [] ob.type = "tree" ->
                [NoResult EXCEPT !.hit = TRUE, !.stun = TRUE,
                                 !.stunDur = ob.stunDuration, !.chopable = TRUE]
           [] OTHER ->
                [NoResult EXCEPT !.hit = TRUE, !.stun = TRUE,
                                 !.stunDur = ob.stunDuration]

\* the side effect of Obstacle.checkCollision: thin ice cracks on contact
AfterCheckCollision(ob, hb, playerJumping) ==
    IF /\ aabbCollide(hb, Obstacle_getHitbox(ob))
       /\ ~(playerJumping /\ ob.canJump)
       /\ ob.type = "thin_ice"
    THEN [ob EXCEPT !.triggered = TRUE]
    ELSE ob

\* Obstacle.checkProjectileCollisions: index of the first active projectile
\* that touches the player, 0 if none
ProjectileHit(ob, hb) ==
    LET touching == { i \in 1..Len(ob.projectiles) :
                        /\ ob.projectiles[i].active
                        /\ aabbCollide(hb, [x |-> ob.projectiles[i].x - 500,
                                            y |-> ob.projectiles[i].y - 500,
                                            w |-> 1000, h |-> 1000]) }
    IN IF touching = {} THEN 0 ELSE CHOOSE i \in touching : \A j \in touching : i <= j

AfterProjectileCheck(ob, hb) ==
    LET k == ProjectileHit(ob, hb)
    IN IF k = 0 THEN ob ELSE [ob EXCEPT !.projectiles[k].active = FALSE]

PROJECTILE_STUN == 600

(***************************************************************************)
(* Collision.js                                                            *)
(***************************************************************************)
\* the body of the loop of CollisionSystem.checkObstacles for obstacles[i];
\* acc holds the player, the obstacles and the hits so far.
\* "Main obstacle collision": what a result does
MainCollision(acc, i, result) ==
    IF ~result.hit THEN acc
    ELSE IF result.stun
         THEN IF result.chopable /\ acc.player.hasAxe
              THEN [ player |-> useAxe(acc.player),
                     obstacles |-> [acc.obstacles EXCEPT ![i].active = FALSE],
                     hits |-> Append(acc.hits, [type |-> "chop", obs |-> i]) ]
              ELSE [acc EXCEPT
                      !.player = stun(acc.player,
                                      IF result.stunDur = 0 THEN 1000 ELSE result.stunDur),
                      !.hits = Append(acc.hits, [type |-> "stun", obs |-> i])]
         ELSE IF result.slowSteering
              THEN [acc EXCEPT !.hits = Append(acc.hits, [type |-> "ice", obs |-> i])]
              ELSE IF result.slowSpeed
                   THEN [acc EXCEPT !.player.speed = Max((acc.player.speed * 7) \div 10,
                                                         acc.player.baseSpeed \div 2)]
                   ELSE acc

\* obs.checkCollision(playerHB, player.jumping): its effect on the obstacle,
\* and its result handed to the main collision
CollideStep(acc, i, hb) ==
    MainCollision(
        [acc EXCEPT !.obstacles[i] =
                       AfterCheckCollision(acc.obstacles[i], hb, acc.player.jumping)],
        i, checkCollision(acc.obstacles[i], hb, acc.player.jumping))

\* "Projectile collisions": what a projectile result does
ProjectileCollision(acc, i, projHit) ==
    IF projHit /\ acc.player.invulTimer <= 0
    THEN [acc EXCEPT !.player = stun(acc.player, PROJECTILE_STUN),
                     !.hits = Append(acc.hits, [type |-> "projectile", obs |-> i])]
    ELSE acc

ProjectileStep(acc, i, hb) ==
    ProjectileCollision(
        [acc EXCEPT !.obstacles[i] = AfterProjectileCheck(acc.obstacles[i], hb)],
        i, ProjectileHit(acc.obstacles[i], hb) # 0)

CheckOneObstacle(acc, i, hb) ==
    IF ~acc.obstacles[i].active THEN acc
    ELSE ProjectileStep(CollideStep(acc, i, hb), i, hb)

RECURSIVE CheckFrom(_, _, _)
CheckFrom(acc, i, hb) ==
    IF i > Len(acc.obstacles) THEN acc
    ELSE CheckFrom(CheckOneObstacle(acc, i, hb), i + 1, hb)

\* CollisionSystem.checkObstacles: the player and obstacles after it, and the hits
checkObstacles(p, obstacles) ==
    IF p.invulTimer > 0 THEN [player |-> p, obstacles |-> obstacles, hits |-> << >>]
    ELSE CheckFrom([player |-> p, obstacles |-> obstacles, hits |-> << >>],
                   1, Player_getHitbox(p))

\* CollisionSystem.checkOwlCapture
checkOwlCapture(p, o) ==
    IF p.invulTimer > 0 THEN FALSE ELSE checkSwoopCapture(o, Player_getHitbox(p))

(***************************************************************************)
(* utils.js: SeededRNG (Mulberry32)                                        *)
(*                                                                         *)
(* A 32-bit word is the record of its two 16-bit halves, so that no        *)
(* intermediate value leaves the range of the integers of the checker; the *)
(* operators compute the same bits as the JavaScript |0, >>> and Math.imul *)
(***************************************************************************)
RECURSIVE Xor16(_, _)
Xor16(a, b) ==
    IF a = 0 THEN b
    ELSE IF b = 0 THEN a
    ELSE ((a + b) % 2) + 2 * Xor16(a \div 2, b \div 2)

RECURSIVE Or16(_, _)
Or16(a, b) ==
    IF a = 0 THEN b
    ELSE IF b = 0 THEN a
    ELSE (IF a % 2 = 1 \/ b % 2 = 1 THEN 1 ELSE 0) + 2 * Or16(a \div 2, b \div 2)

Word(hi, lo) == [hi |-> hi, lo |-> lo]

Xor32(a, b) == Word(Xor16(a.hi, b.hi), Xor16(a.lo, b.lo))

\* a | k for a constant k below 2^16
OrLow(a, k) == Word(a.hi, Or16(a.lo, k))

Add32(a, b) ==
    LET lo == a.lo + b.lo
    IN Word((a.hi + b.hi + (lo \div 65536)) % 65536, lo % 65536)

\* a >>> 15, a >>> 7, a >>> 14
Shr15(a) == LET v == a.hi * 2 + (a.lo \div 32768) IN Word(v \div 65536, v % 65536)
Shr7(a) == Word(a.hi \div 128, (a.hi % 128) * 512 + (a.lo \div 128))
Shr14(a) == Word(a.hi \div 16384, (a.hi % 16384) * 4 + (a.lo \div 16384))

\* Math.imul: the low 32 bits of the product, by byte columns
Imul(a, b) ==
    LET a0 == a.lo % 256  a1 == a.lo \div 256  a2 == a.hi % 256  a3 == a.hi \div 256
        b0 == b.lo % 256  b1 == b.lo \div 256  b2 == b.hi % 256  b3 == b.hi \div 256
        c0 == a0 * b0
        c1 == a0 * b1 + a1 * b0 + (c0 \div 256)
        c2 == a0 * b2 + a1 * b1 + a2 * b0 + (c1 \div 256)
        c3 == a0 * b3 + a1 * b2 + a2 * b1 + a3 * b0 + (c2 \div 256)
    IN Word((c3 % 256) * 256 + (c2 % 256), (c1 % 256) * 256 + (c0 % 256))

\* 0x6D2B79F5
MULBERRY_INC == Word(27947, 31221)

\* new SeededRNG(seed): seed >>> 0, for a seed given as a non-negative integer
\* below 2^31
SeededRNG(seed) == Word(seed \div 65536, seed % 65536)

\* SeededRNG.next: the seed after the call ...
RngAdvance(seed) == Add32(seed, MULBERRY_INC)

\* ... and the 32-bit value whose quotient by 2^32 the call returns:
\* "let t = Math.imul(seed ^ (seed >>> 15), 1 | seed)"
RngMix1(sd) == Imul(Xor32(sd, Shr15(sd)), OrLow(sd, 1))

\* "t = (t + Math.imul(t ^ (t >>> 7), 61 | t)) ^ t"
RngMix2(t1) == Xor32(Add32(t1, Imul(Xor32(t1, Shr7(t1)), OrLow(t1, 61))), t1)

\* "(t ^ (t >>> 14)) >>> 0"
RngMix3(t2) == Xor32(t2, Shr14(t2))

RngOutput(seed) == RngMix3(RngMix2(RngMix1(RngAdvance(seed))))

\* floor((r / 2^32) * n) for a 32-bit r and a small n
ScaleWord(r, n) == (r.hi * n + ((r.lo * n) \div 65536)) \div 65536

\* SeededRNG.nextInt(min, max) = floor(next() * (max - min + 1)) + min
nextInt(seed, min, max) == ScaleWord(RngOutput(seed), max - min + 1) + min

(***************************************************************************)
(* Spawner.js                                                              *)
(***************************************************************************)
OBSTACLE_INTERVAL == 2200
PICKUP_INTERVAL == 5000
NPC_INTERVAL == 8000
NPC_MAX == 3
MIN_OBSTACLE_INTERVAL == 900
SpawnY == 0 - 8000

PICKUP_TYPES == <<"feather_axe", "wind_gust", "hot_cocoa", "lantern_charm", "lucky_bell">>

NewSpawner(rng) ==
    [ rng |-> rng,
      obstacleTimer |-> 0, obstacleInterval |-> OBSTACLE_INTERVAL,
      pickupTimer |-> 0, pickupInterval |-> PICKUP_INTERVAL,
      npcTimer |-> 0, npcInterval |-> NPC_INTERVAL, npcMax |-> NPC_MAX ]

\* the seed after k calls of next()
RECURSIVE RngSkip(_, _)
RngSkip(seed, k) == IF k = 0 THEN seed ELSE RngSkip(RngAdvance(seed), k - 1)

\* the k-th (k = 1..) of successive nextInt(0, 4) calls starting at seed
LaneDraw(seed, k) == nextInt(RngSkip(seed, k - 1), 0, 4)

Pattern(type, lanes, difficulty, gap) ==
    [type |-> type, lanes |-> lanes, difficulty |-> difficulty, gap |-> gap]

\* Spawner._getPatterns: the eight nextInt(0, 4) calls are made in the order
\* of the array literals, whatever the difficulty
BasePatterns(seed) == <<
    Pattern("log", <<LaneDraw(seed, 1)>>, 0, << >>),
    Pattern("snowman", <<LaneDraw(seed, 2)>>, 0, << >>),
    Pattern("snowdrift", <<LaneDraw(seed, 3)>>, 0, << >>),
    Pattern("ice_patch", <<LaneDraw(seed, 4)>>, 0, << >>),
    Pattern("branch", <<LaneDraw(seed, 5)>>, 0, << >>),
    Pattern("log", <<0, 1, 2>>, 1, << >>),
    Pattern("log", <<2, 3, 4>>, 1, << >>),
    Pattern("snowman", <<0, 2, 4>>, 1, <<1, 3>>),
    Pattern("tree", <<LaneDraw(seed, 6)>>, 1, << >>) >>

MediumPatterns(seed) == <<
    Pattern("snowball", <<LaneDraw(seed, 7)>>, 2, << >>),
    Pattern("log", <<1, 2, 3>>, 2, << >>),
    Pattern("snowman", <<0, 1, 3, 4>>, 2, <<2>>),
    Pattern("thin_ice", <<LaneDraw(seed, 8)>>, 2, << >>) >>

HardPatterns == <<
    Pattern("snowball", <<0, 2, 4>>, 3, << >>),
    Pattern("snowman", <<0, 1, 2, 4>>, 3, <<3>>),
    Pattern("log", <<0, 1, 2, 3>>, 3, <<4>>),
    Pattern("tree", <<1, 3>>, 3, << >>) >>

getPatternsAllTiers(seed, difficulty) ==
    BasePatterns(seed) \o MediumPatterns(seed) \o HardPatterns

Spawner_getPatterns(seed, difficulty) ==
    BasePatterns(seed)
        \o (IF difficulty >= 2 THEN MediumPatterns(seed) ELSE << >>)
        \o (IF difficulty >= 4 THEN HardPatterns ELSE << >>)

SeqToSet(q) == { q[i] : i \in 1..Len(q) }

buildPatternAllButGap(pattern) ==
    SelectSeq(<<0, 1, 2, 3, 4>>, LAMBDA lane : lane \notin SeqToSet(pattern.gap))

\* Spawner._buildPattern: the lanes that receive an obstacle, in order
Spawner_buildPattern(pattern) ==
    SelectSeq(pattern.lanes, LAMBDA lane : lane \notin SeqToSet(pattern.gap))

\* "this.rng.choice(patterns)": arr[nextInt(0, arr.length - 1)]
PickPattern(list, seed) == list[nextInt(seed, 0, Len(list) - 1) + 1]

SafePatternsUpToMedium(patterns) == SelectSeq(patterns, LAMBDA p : p.difficulty <= 2)

\* "patterns.filter(p => p.difficulty <= 1)"
SafePatterns(patterns) == SelectSeq(patterns, LAMBDA p : p.difficulty <= 1)

\* "if (blockedLanes.size >= 5) pattern = { ...pattern, lanes: [...occupied].slice(0, 4) }"
TrimPattern(chosen) ==
    IF Cardinality(SeqToSet(chosen.lanes)) >= 5
    THEN [chosen EXCEPT !.lanes = SubSeq(chosen.lanes, 1, 4)]
    ELSE chosen

SpawnResult(pattern, rng) ==
    [pattern |-> pattern, lanes |-> Spawner_buildPattern(pattern), rng |-> rng]

\* the body of _spawnObstaclePattern once the pattern list is built; s1 is the
\* seed after the list's eight draws.  The first pick is always drawn; under an
\* active shadow a second pick among the safe patterns replaces it.
SpawnAmong(patterns, safePatterns, s1, hasActiveShadow) ==
    IF hasActiveShadow /\ Len(safePatterns) > 0
    THEN SpawnResult(TrimPattern(PickPattern(safePatterns, RngAdvance(s1))), RngSkip(s1, 2))
    ELSE SpawnResult(TrimPattern(PickPattern(patterns, s1)), RngAdvance(s1))

SpawnFrom(patterns, s1, hasActiveShadow) ==
    SpawnAmong(patterns, SafePatterns(patterns), s1, hasActiveShadow)

\* Spawner._spawnObstaclePattern: the pattern used, the lanes that receive an
\* obstacle, and the seed afterwards
Spawner_spawnObstaclePattern(seed, difficulty, hasActiveShadow) ==
    SpawnFrom(Spawner_getPatterns(seed, difficulty), RngSkip(seed, 8), hasActiveShadow)

\* whether the obstacle timer has reached Math.max(900, obstacleInterval / diffMult),
\* with diffMult = 1 + difficulty * 0.15
ObstacleDue(timer, obstacleInterval, difficulty) ==
    /\ timer >= MIN_OBSTACLE_INTERVAL
    /\ timer * (100 + 15 * difficulty) >= obstacleInterval * 100

\* whether the pickup timer has reached pickupInterval / pickupFreqMult
PickupDue(timer, pickupInterval, pickupFreqMult) ==
    timer * pickupFreqMult >= pickupInterval * 1000

PushPatternKeepsTimer(sp, spawn) ==
    [ spawner |-> [sp EXCEPT !.rng = spawn.rng],
      obstacles |-> <<[type |-> spawn.pattern.type, lanes |-> spawn.lanes,
                       tier |-> spawn.pattern.difficulty]>>,
      pickups |-> << >>,
      npcs |-> << >> ]

\* Spawner.update, "Obstacle spawning": the spawner afterwards and what was pushed
PushPattern(sp, spawn) ==
    [ spawner |-> [sp EXCEPT !.rng = spawn.rng, !.obstacleTimer = 0],
      obstacles |-> <<[type |-> spawn.pattern.type, lanes |-> spawn.lanes,
                       tier |-> spawn.pattern.difficulty]>>,
      pickups |-> << >>,
      npcs |-> << >> ]

SpawnerObstacleStep(sp, dtMs, difficulty, hasActiveShadow) ==
    IF ObstacleDue(sp.obstacleTimer + dtMs, sp.obstacleInterval, difficulty)
    THEN PushPattern(sp, Spawner_spawnObstaclePattern(sp.rng, difficulty, hasActiveShadow))
    ELSE [ spawner |-> [sp EXCEPT !.obstacleTimer = sp.obstacleTimer + dtMs],
           obstacles |-> << >>, pickups |-> << >>, npcs |-> << >> ]

\* Spawner.update, "Pickup spawning"; _spawnPickup draws the lane, then the type
SpawnerPickupStep(r, dtMs, pickupFreqMult) ==
    IF PickupDue(r.spawner.pickupTimer + dtMs, r.spawner.pickupInterval, pickupFreqMult)
    THEN [r EXCEPT !.spawner.rng = RngSkip(r.spawner.rng, 2),
                   !.spawner.pickupTimer = 0,
                   !.pickups = <<[type |-> PICKUP_TYPES[nextInt(RngAdvance(r.spawner.rng),
                                                0, Len(PICKUP_TYPES) - 1) + 1],
                                  lane |-> nextInt(r.spawner.rng, 0, 4)]>>]
    ELSE [r EXCEPT !.spawner.pickupTimer = r.spawner.pickupTimer + dtMs]

\* Spawner.update, "NPC spawning"; _spawnNPC draws the lane, then the offset
SpawnerNpcStep(r, dtMs, activeNPCs) ==
    IF r.spawner.npcTimer + dtMs >= r.spawner.npcInterval /\ activeNPCs < r.spawner.npcMax
    THEN [r EXCEPT !.spawner.rng = RngSkip(r.spawner.rng, 2),
                   !.spawner.npcTimer = 0,
                   !.npcs = <<[lane |-> nextInt(r.spawner.rng, 0, 4),
                               offset |-> nextInt(RngAdvance(r.spawner.rng), 0, 120)]>>]
    ELSE [r EXCEPT !.spawner.npcTimer = r.spawner.npcTimer + dtMs]

\* Spawner.update.  activeNPCs is the number of active entries of the npcs
\* array passed in.  The result holds the spawner afterwards and what was
\* pushed: the obstacle pattern (type and lanes), the pickup, the NPC lane.
Spawner_update(sp, dtMs, difficulty, pickupFreqMult, hasActiveShadow, activeNPCs) ==
    SpawnerNpcStep(
        SpawnerPickupStep(
            SpawnerObstacleStep(sp, dtMs, difficulty, hasActiveShadow),
            dtMs, pickupFreqMult),
        dtMs, activeNPCs)

\* the loop of Spawner._buildPattern with the Obstacle constructor: mr[i] is the
\* value of the Math.random() call that decides isEvil (thousandths)
buildObstaclesRandomLane(type, lanes, mr) ==
    [i \in 1..Len(lanes) |->
        NewObstacle(type, (mr[i] * 5) \div 1000, lanePositions[(mr[i] * 5) \div 1000],
                    SpawnY, mr[i] < 600)]

Spawner_buildObstacles(type, lanes, mr) ==
    [i \in 1..Len(lanes) |->
        NewObstacle(type, lanes[i], lanePositions[lanes[i]], SpawnY, mr[i] < 600)]

(***************************************************************************)
(* One call of _spawnObstaclePattern for a generator state, a difficulty   *)
(* and a shadow flag                                                       *)
(***************************************************************************)
\* Game.startLevel seeds the level's generator with dailySeed + levelNum * 7
\* or Date.now() + levelNum: any integer
PatternSeeds == { SeededRNG(20240101 + 7 * k) : k \in 1..MaxSeeds }

InitPattern ==
    /\ player = NewPlayer(0, FALSE)
    /\ psteps = 0
    /\ pop = [op |-> "new", arg |-> 0, before |-> player]
    /\ game = [state |-> "title"]
    /\ owl = [threat |-> 0]
    /\ octx = << >>
    /\ osteps = 0
    /\ oop = << >>
    /\ timers = << >>
    /\ frames = 0
    /\ runA = << >>
    /\ runB = << >>
    /\ ticks = 0
    /\ coll = << >>
    /\ \E seed \in PatternSeeds, d \in 0..8, sh \in BOOLEAN :
          pat = [phase |-> "input", rng |-> seed, difficulty |-> d,
                 hasActiveShadow |-> sh,
                 pattern |-> Pattern("none", << >>, 0, << >>), lanes |-> << >>]

PSpawnObstaclePattern ==
    /\ pat.phase = "input"
    /\ \E r \in {Spawner_spawnObstaclePattern(pat.rng, pat.difficulty, pat.hasActiveShadow)} :
          pat' = [pat EXCEPT !.phase = "spawned", !.pattern = r.pattern,
                             !.lanes = r.lanes, !.rng = r.rng]
    /\ UNCHANGED <<player, psteps, pop, game, owl, octx, osteps, oop, timers, frames,
                   runA, runB, ticks, coll>>

NextPattern == PSpawnObstaclePattern

SpecPattern == InitPattern /\ [][NextPattern]_vars

\* C5: every generated pattern leaves at least one lane of 0..4 without an obstacle
C5_SafeLane ==
    pat.phase = "spawned" => \E lane \in 0..4 : lane \notin SeqToSet(pat.lanes)

\* a four-lane wall was generated, leaving exactly one lane free
C5_Witness ==
    /\ pat.phase = "spawned"
    /\ Cardinality(SeqToSet(pat.lanes)) = 4

\* C15: a pattern spawned while the owl has a warning shadow has difficulty
\* tier at most 1, at every difficulty 0..8
C15_ShadowSpawnsEasy ==
    (pat.phase = "spawned" /\ pat.hasActiveShadow) => pat.pattern.difficulty <= 1

\* a spawn under a shadow at a difficulty where medium and hard patterns are
\* in the pool
C15_Witness ==
    /\ pat.phase = "spawned"
    /\ pat.hasActiveShadow
    /\ pat.difficulty >= 4
    /\ pat.pattern.difficulty <= 1

\* C16: the spawned pattern comes from the pool of its difficulty: tier 0 or
\* 1 only below difficulty 2, and no tier 3 below difficulty 4
C16_EligiblePool ==
    pat.phase = "spawned" =>
        /\ pat.pattern.difficulty \in 0..3
        /\ pat.difficulty < 2 => pat.pattern.difficulty <= 1
        /\ pat.difficulty < 4 => pat.pattern.difficulty <= 2

\* a hard pattern was selected at the first difficulty that allows it
C16_Witness ==
    /\ pat.phase = "spawned"
    /\ pat.difficulty = 4
    /\ pat.pattern.difficulty = 3

\* a medium pattern was selected at the first difficulty that allows it
C16_MediumSelected ==
    /\ pat.phase = "spawned"
    /\ pat.difficulty = 2
    /\ pat.pattern.difficulty = 2

(***************************************************************************)
(* Two Spawner instances created with the same seed, driven in lock step   *)
(* by the same update calls                                                *)
(***************************************************************************)
\* representative values of Math.random(), in thousandths
MathRandom == {100, 700}

\* Math.min(level, 8) and CHARACTERS[i].stats.pickupFreqMult
PairDifficulties == {1, 8}
PickupFreqMults == {1000, 1200}

NewRun(seed, d, pf) ==
    [ spawner |-> NewSpawner(SeededRNG(seed)), difficulty |-> d, pickupFreqMult |-> pf,
      events |-> << >>, newObs |-> << >>, pickups |-> 0, npcActive |-> 0 ]

InitSpawnerPair ==
    /\ player = NewPlayer(0, FALSE)
    /\ psteps = 0
    /\ pop = [op |-> "new", arg |-> 0, before |-> player]
    /\ game = [state |-> "title"]
    /\ owl = [threat |-> 0]
    /\ octx = << >>
    /\ osteps = 0
    /\ oop = << >>
    /\ timers = << >>
    /\ frames = 0
    /\ \E seed \in {20240101 + 7, 20261103 + 7}, d \in PairDifficulties,
          pf \in PickupFreqMults :
          /\ runA = NewRun(seed, d, pf)
          /\ runB = NewRun(seed, d, pf)
    /\ ticks = 0
    /\ pat = << >>
    /\ coll = << >>

\* the number of active NPCs a run passes to Spawner.update: snatched tells
\* whether an NPC has left the npcs array since the last call
ActiveNPCs(run, snatched) ==
    IF snatched /\ run.npcActive > 0 THEN run.npcActive - 1 ELSE run.npcActive

\* the obstacles built for the pattern pushed by an update; mr are the
\* Math.random() values of the call
BuiltOf(u, mr) ==
    IF u.obstacles = << >> THEN << >>
    ELSE Spawner_buildObstacles(u.obstacles[1].type, u.obstacles[1].lanes, mr)

RunAfter(run, active, u, built) ==
    [run EXCEPT !.spawner = u.spawner,
                !.newObs = built,
                !.events = IF built = << >> THEN run.events
                           ELSE Append(run.events,
                                  [tick |-> ticks + 1,
                                   type |-> built[1].type,
                                   lanes |-> [i \in 1..Len(built) |-> built[i].lane]]),
                !.pickups = run.pickups + Len(u.pickups),
                !.npcActive = active + Len(u.npcs)]

\* one Spawner.update of a run, given what the update returned
RunTickOn(run, active, u, mr) == RunAfter(run, active, u, BuiltOf(u, mr))

\* the Spawner.update call of a run
RunUpdate(run, dtMs, hasActiveShadow, snatched) ==
    Spawner_update(run.spawner, dtMs, run.difficulty, run.pickupFreqMult,
                   hasActiveShadow, ActiveNPCs(run, snatched))

\* the Math.random() values a tick may consume: one per obstacle of the pattern
RandomOf(u) ==
    IF u.obstacles = << >> THEN { << >> }
    ELSE IF u.obstacles[1].type = "snowman"
         THEN [1..Len(u.obstacles[1].lanes) -> MathRandom]
         ELSE { [i \in 1..Len(u.obstacles[1].lanes) |-> 100] }

PairTick ==
    /\ ticks < MaxTicks
    /\ \E hasActiveShadow \in BOOLEAN, snatched \in BOOLEAN :
         \E uA \in {RunUpdate(runA, 100, hasActiveShadow, snatched)},
            uB \in {RunUpdate(runB, 100, hasActiveShadow, snatched)} :
            \E mrA \in RandomOf(uA), mrB \in RandomOf(uB) :
               /\ runA' = RunTickOn(runA, ActiveNPCs(runA, snatched), uA, mrA)
               /\ runB' = RunTickOn(runB, ActiveNPCs(runB, snatched), uB, mrB)
    /\ ticks' = ticks + 1
    /\ UNCHANGED <<player, psteps, pop, game, owl, octx, osteps, oop, timers, frames,
                   pat, coll>>

NextSpawnerPair == PairTick

SpecSpawnerPair == InitSpawnerPair /\ [][NextSpawnerPair]_vars

\* C6: two spawners with the same seed and the same update calls produce the
\* same sequence of obstacle spawn events: same tick, type and lanes
C6_SameSpawnEvents == runA.events = runB.events

\* both runs have spawned twice, the second time snowmen whose hostile flags
\* (Math.random) differ between the runs
C6_Witness ==
    /\ Len(runA.events) >= 2
    /\ Len(runB.events) >= 2
    /\ runA.newObs # << >>
    /\ runA.newObs # runB.newObs

\* simulated ms between spawn event i of a run and the one before it (the
\* start of the run for the first); a tick of the pair is 100 ms
SpawnGap(run, i) ==
    100 * (run.events[i].tick - (IF i = 1 THEN 0 ELSE run.events[i - 1].tick))

\* the spawn events of a run within its first 3000 ms
EarlySpawns(run) == { i \in 1..Len(run.events) : run.events[i].tick * 100 <= 3000 }

\* C17: consecutive obstacle spawn events are at least
\* max(900 ms, obstacleInterval / (1 + 0.15 * difficulty)) of simulated time
\* apart, and at difficulty 1 the first 3000 ms hold exactly one spawn event,
\* between 900 and 2200 ms
C17_SpawnSpacing ==
    /\ \A i \in 1..Len(runA.events) :
          /\ SpawnGap(runA, i) >= 900
          /\ SpawnGap(runA, i) * (100 + 15 * runA.difficulty)
                >= runA.spawner.obstacleInterval * 100
    /\ (runA.difficulty = 1 /\ ticks * 100 >= 3000) =>
          /\ Cardinality(EarlySpawns(runA)) = 1
          /\ \A i \in EarlySpawns(runA) :
                /\ runA.events[i].tick * 100 >= 900
                /\ runA.events[i].tick * 100 <= 2200

\* a run at difficulty 1 past 3000 ms whose second spawn event has happened
C17_Witness ==
    /\ runA.difficulty = 1
    /\ ticks * 100 >= 3000
    /\ Len(runA.events) >= 2
    /\ runA.events[1].tick * 100 = 2000

(***************************************************************************)
(* Two runs of a level started with the same seed: Game.startLevel makes   *)
(* the level's SeededRNG from the seed and a new Owl; both runs then get   *)
(* the same frames and the same stun hits.  shadowLanes records the lanes  *)
(* of the shadows of every swoop, in order.                                *)
(***************************************************************************)
NewOwlRun(seed, d) ==
    [ rng |-> SeededRNG(seed), difficulty |-> d, owl |-> NewOwl, shadowLanes |-> << >> ]

InitOwlPair ==
    /\ player = NewPlayer(0, FALSE)
    /\ psteps = 0
    /\ pop = [op |-> "new", arg |-> 0, before |-> player]
    /\ game = [state |-> "title"]
    /\ owl = [threat |-> 0]
    /\ octx = << >>
    /\ osteps = 0
    /\ oop = << >>
    /\ timers = << >>
    /\ frames = 0
    /\ \E seed \in {20240101 + 7, 20261103 + 7}, d \in {1, 4} :
          /\ runA = NewOwlRun(seed, d)
          /\ runB = NewOwlRun(seed, d)
    /\ ticks = 0
    /\ pat = << >>
    /\ coll = << >>

\* one frame of a run: the timers run for rdt, then Owl.update with the capped
\* delta; rnd are the Math.random() outcomes of _startSwoop
OwlRunFrame(run, rdt, rnd) ==
    LET o1 == Owl_timePasses(run.owl, rdt)
        o2 == Owl_update(o1, CapDt(rdt), run.difficulty, 1000, rnd)
        started == SwoopTriggers(o1, CapDt(rdt))
    IN [run EXCEPT !.owl = o2,
                   !.shadowLanes =
                       IF started
                       THEN run.shadowLanes \o [i \in 1..Len(o2.shadows) |-> o2.shadows[i].lane]
                       ELSE run.shadowLanes]

OwlRunRandom(run, rdt) ==
    IF SwoopTriggers(Owl_timePasses(run.owl, rdt), CapDt(rdt))
    THEN SwoopRandom(run.difficulty) ELSE {NoRandom}

OPFrame ==
    /\ ticks < MaxPairSteps
    /\ \E rdt \in WaitSet :
         \E rndA \in OwlRunRandom(runA, rdt), rndB \in OwlRunRandom(runB, rdt) :
            /\ runA' = OwlRunFrame(runA, rdt, rndA)
            /\ runB' = OwlRunFrame(runB, rdt, rndB)
    /\ ticks' = ticks + 1
    /\ UNCHANGED <<player, psteps, pop, game, owl, octx, osteps, oop, timers, frames,
                   pat, coll>>

\* the player is stunned by n obstacles in the same tick of both runs
OPStunHits ==
    /\ ticks < MaxPairSteps
    /\ \E n \in 1..MaxHits :
         /\ runA' = [runA EXCEPT !.owl = increaseThreatTimes(runA.owl, STUN_HIT_THREAT, n)]
         /\ runB' = [runB EXCEPT !.owl = increaseThreatTimes(runB.owl, STUN_HIT_THREAT, n)]
    /\ ticks' = ticks + 1
    /\ UNCHANGED <<player, psteps, pop, game, owl, octx, osteps, oop, timers, frames,
                   pat, coll>>

NextOwlPair == OPFrame \/ OPStunHits

SpecOwlPair == InitOwlPair /\ [][NextOwlPair]_vars

\* C7: two runs with the same seed and identical player timing have the same
\* sequence of shadow lanes
C7_SameShadowLanes == runA.shadowLanes = runB.shadowLanes

(***************************************************************************)
(* One call of checkObstacles on a player and the obstacles around it      *)
(***************************************************************************)
\* players the game can hold at the collision step: fresh, carrying the axe,
\* airborne, stunned, and invulnerable after a stun
RECURSIVE UpdateTimes(_, _, _)
UpdateTimes(p, dtMs, n) ==
    IF n = 0 THEN p ELSE UpdateTimes(Player_update(p, dtMs), dtMs, n - 1)

CollisionPlayers ==
    LET base == { NewPlayer(c, TRUE) : c \in {0, 2} }
        axe == base \cup { [p EXCEPT !.hasAxe = TRUE] : p \in base }
        air == { Player_update(jump(p), 100) : p \in axe }
                 \cup { Player_update(jump(p), 16) : p \in base }
        stunned == { Player_update(stun(p, 1000), 100) : p \in axe }
        invul == { UpdateTimes(stun(p, 500), 100, 7) : p \in axe }
    IN axe \cup air \cup stunned \cup invul

\* an obstacle in the player's lane that has scrolled down to the player, one
\* still ahead of the player, and one passing in the next lane
ObstaclePlaces == { [lane |-> 2, y |-> PlayerY], [lane |-> 2, y |-> PlayerY - 30000],
                    [lane |-> 3, y |-> PlayerY] }

PlacedObstacles ==
    { NewObstacle(t, pl.lane, lanePositions[pl.lane], pl.y, e) :
        t \in OBSTACLE_TYPES, pl \in ObstaclePlaces, e \in {TRUE} }
    \cup { NewObstacle("snowman", 2, lanePositions[2], PlayerY, FALSE) }
    \cup { [NewObstacle("snowman", 2, lanePositions[2], PlayerY - 30000, TRUE)
              EXCEPT !.projectiles = << [x |-> lanePositions[2],
                                         y |-> PlayerY - 1000, active |-> TRUE] >>] }
    \cup { [NewObstacle("tree", 2, lanePositions[2], PlayerY, FALSE)
              EXCEPT !.active = FALSE] }
    \cup { [NewObstacle("thin_ice", 2, lanePositions[2], PlayerY, FALSE)
              EXCEPT !.triggered = TRUE] }

ObstacleLists ==
    UNION { [1..n -> PlacedObstacles] : n \in 0..MaxObs }

InitCollide ==
    /\ player = NewPlayer(0, FALSE)
    /\ psteps = 0
    /\ pop = [op |-> "new", arg |-> 0, before |-> player]
    /\ game = [state |-> "title"]
    /\ owl = [threat |-> 0]
    /\ octx = << >>
    /\ osteps = 0
    /\ oop = << >>
    /\ timers = << >>
    /\ frames = 0
    /\ runA = << >>
    /\ runB = << >>
    /\ ticks = 0
    /\ pat = << >>
    /\ \E p \in CollisionPlayers, obs \in ObstacleLists :
          coll = [phase |-> "input", player |-> p, obstacles |-> obs,
                  after |-> [player |-> p, obstacles |-> obs, hits |-> << >>]]

CCheckObstacles ==
    /\ coll.phase = "input"
    /\ coll' = [coll EXCEPT !.phase = "checked",
                            !.after = checkObstacles(coll.player, coll.obstacles)]
    /\ UNCHANGED <<player, psteps, pop, game, owl, octx, osteps, oop, timers, frames,
                   runA, runB, ticks, pat>>

NextCollide == CCheckObstacles

SpecCollide == InitCollide /\ [][NextCollide]_vars

\* obstacle i is an active tree that the player's hitbox overlaps
TreeContact(i) ==
    /\ coll.obstacles[i].type = "tree"
    /\ coll.obstacles[i].active
    /\ aabbCollide(Player_getHitbox(coll.player), Obstacle_getHitbox(coll.obstacles[i]))

\* the player still holds the axe when obstacle i is reached: no tree before it
HoldsAxeAt(i) ==
    /\ coll.player.hasAxe
    /\ \A j \in 1..(i - 1) : ~TreeContact(j)

HitsOn(i, type) ==
    \E k \in 1..Len(coll.after.hits) :
        coll.after.hits[k].obs = i /\ coll.after.hits[k].type = type

\* C8: a tree hit while holding the axe (and not invulnerable) is deactivated,
\* consumes the axe and reports 'chop', not a stun; without the axe the same
\* contact stuns
C8_AxeChopsTree ==
    coll.phase = "checked" =>
      \A i \in 1..Len(coll.obstacles) :
        (TreeContact(i) /\ coll.player.invulTimer <= 0) =>
          IF HoldsAxeAt(i)
          THEN /\ ~coll.after.obstacles[i].active
               /\ ~coll.after.player.hasAxe
               /\ HitsOn(i, "chop")
               /\ ~HitsOn(i, "stun")
               /\ (~coll.player.stunned /\ Len(coll.after.hits) = 1
                      => ~coll.after.player.stunned)
          ELSE /\ coll.after.obstacles[i].active
               /\ HitsOn(i, "stun")
               /\ ~HitsOn(i, "chop")
               /\ coll.after.player.stunned

\* an axe-carrying player meets a tree and chops it without being stunned
C8_Witness ==
    /\ coll.phase = "checked"
    /\ \E i \in 1..Len(coll.obstacles) :
          /\ TreeContact(i) /\ HoldsAxeAt(i) /\ coll.player.invulTimer <= 0
          /\ HitsOn(i, "chop")
    /\ ~coll.after.player.stunned
    /\ ~coll.after.player.hasAxe

\* obstacle i is active and the player's hitbox overlaps it
Overlaps(i) ==
    /\ coll.obstacles[i].active
    /\ aabbCollide(Player_getHitbox(coll.player), Obstacle_getHitbox(coll.obstacles[i]))

AnyHitOn(i) ==
    \E k \in 1..Len(coll.after.hits) :
        coll.after.hits[k].obs = i /\ coll.after.hits[k].type # "projectile"

\* C18: an airborne player overlapping a log, snowball, snowdrift or branch
\* gets no hit from it and is neither stunned nor slowed by it, while an
\* overlapped hostile snowman, tree, ice patch or thin ice hits the airborne
\* player as it would on the ground
C18_JumpAvoids ==
    (coll.phase = "checked" /\ coll.player.jumping /\ coll.player.invulTimer <= 0) =>
      /\ \A i \in 1..Len(coll.obstacles) :
            Overlaps(i) =>
              CASE coll.obstacles[i].type \in {"log", "snowball", "snowdrift", "branch"} ->
                     ~AnyHitOn(i)
                [] coll.obstacles[i].type = "ice_patch" -> HitsOn(i, "ice")
                [] coll.obstacles[i].type = "thin_ice" ->
                     HitsOn(i, "stun") /\ coll.after.obstacles[i].triggered
                [] coll.obstacles[i].type = "tree" ->
                     HitsOn(i, "stun") \/ HitsOn(i, "chop")
                [] coll.obstacles[i].type = "snowman" ->
                     (HitsOn(i, "stun") <=> coll.obstacles[i].isEvil)
      /\ (\A i \in 1..Len(coll.obstacles) :
             coll.obstacles[i].type \in {"log", "snowball", "snowdrift", "branch"}) =>
            /\ coll.after.hits = << >>
            /\ coll.after.player = coll.player

\* an airborne player overlaps a snowdrift and a thin ice at once: only the
\* thin ice hits
C18_Witness ==
    /\ coll.phase = "checked"
    /\ coll.player.jumping
    /\ coll.player.invulTimer <= 0
    /\ \E i, j \in 1..Len(coll.obstacles) :
          /\ Overlaps(i) /\ coll.obstacles[i].type = "snowdrift" /\ ~AnyHitOn(i)
          /\ Overlaps(j) /\ coll.obstacles[j].type = "thin_ice" /\ HitsOn(j, "stun")
    /\ coll.after.player.speed = (coll.player.baseSpeed * 4) \div 10

\* C19: a thin ice that has already been triggered has no effect when the
\* player overlaps it again: it reports no hit and leaves the player as it was
C19_ThinIceOneShot ==
    coll.phase = "checked" =>
      \A i \in 1..Len(coll.obstacles) :
        (Overlaps(i) /\ coll.obstacles[i].type = "thin_ice"
            /\ coll.obstacles[i].triggered) =>
          /\ ~AnyHitOn(i)
          /\ (Len(coll.obstacles) = 1 => coll.after.player = coll.player)

\* C35: checkObstacles reports a 'stun' hit only in a call in which the
\* player changes from not stunned to stunned, and then only one
C35_OneStunHitPerContact ==
    coll.phase = "checked" =>
        Cardinality({k \in 1..Len(coll.after.hits) : coll.after.hits[k].type = "stun"})
            <= (IF ~coll.player.stunned /\ coll.after.player.stunned THEN 1 ELSE 0)

(***************************************************************************)
(* Player operations in isolation                                          *)
(***************************************************************************)
\* base stun durations the callers pass: thin ice, projectile, branch, tree,
\* log (and the "|| 1000" default), snowman, rolling ball
StunDurations == {500, 600, 700, 800, 1000, 1200, 1400}

InitPlayer ==
    /\ \E c \in 0..3, a \in BOOLEAN : player = NewPlayer(c, a)
    /\ psteps = 0
    /\ pop = [op |-> "new", arg |-> 0, before |-> player]
    /\ game = [state |-> "title"]
    /\ owl = [threat |-> 0]
    /\ octx = << >>
    /\ osteps = 0
    /\ oop = << >>
    /\ timers = << >>
    /\ frames = 0
    /\ runA = << >>
    /\ runB = << >>
    /\ ticks = 0
    /\ pat = << >>
    /\ coll = << >>

PStep(name, arg, p) ==
    /\ psteps < MaxPSteps
    /\ player' = p
    /\ psteps' = psteps + 1
    /\ pop' = [op |-> name, arg |-> arg, before |-> player]
    /\ UNCHANGED <<game, owl, octx, osteps, oop, timers, frames, runA, runB, ticks, pat, coll>>

PMoveLeft == PStep("moveLeft", 0, moveLeft(player))
PMoveRight == PStep("moveRight", 0, moveRight(player))
PJump == PStep("jump", 0, jump(player))
PDash == PStep("dash", 0, dash(player))
PStun == \E d \in StunDurations : PStep("stun", d, stun(player, d))
PUpdate == \E dt \in DtSet : PStep("update", CapDt(dt), Player_update(player, CapDt(dt)))

NextPlayer == PMoveLeft \/ PMoveRight \/ PJump \/ PDash \/ PStun \/ PUpdate

SpecPlayer == InitPlayer /\ [][NextPlayer]_vars

\* C9: for every sequence of moveLeft/moveRight calls (interleaved with jumps,
\* dashes, stuns and updates) the player's targetLane and lane stay in 0..4
C9_LaneInRange ==
    /\ player.targetLane \in 0..4
    /\ player.lane \in 0..4

\* a moveLeft at lane 0 or a moveRight at lane 4 was clamped
C9_Witness ==
    \/ pop.op = "moveLeft" /\ pop.before.targetLane = 0 /\ ~pop.before.stunned
          /\ player.targetLane = 0
    \/ pop.op = "moveRight" /\ pop.before.targetLane = 4 /\ ~pop.before.stunned
          /\ player.targetLane = 4 /\ player.lane = 4

\* C10: a stun request made while already stunned or while invulnerable leaves
\* stunned, stunTimer, stunDuration, speed and stunCount unchanged
C10_StunNoOp ==
    (pop.op = "stun" /\ (pop.before.stunned \/ pop.before.invulTimer > 0)) =>
        /\ player.stunned = pop.before.stunned
        /\ player.stunTimer = pop.before.stunTimer
        /\ player.stunDuration = pop.before.stunDuration
        /\ player.speed = pop.before.speed
        /\ player.stunCount = pop.before.stunCount

\* a second stun with another duration arrives while a stun is part-way through
C10_Witness ==
    /\ pop.op = "stun"
    /\ pop.before.stunned
    /\ pop.before.stunTimer < pop.before.stunDuration
    /\ (pop.arg * pop.before.stunMult) \div 1000 # pop.before.stunDuration

\* C12: the player is never stunned and invulnerable at once, and the
\* invulnerability timer becomes positive only in a tick that ends a stun
C12_StunnedXorInvulnerable ==
    /\ ~(player.stunned /\ player.invulTimer > 0)
    /\ (player.invulTimer > 0 /\ pop.before.invulTimer <= 0) =>
          /\ pop.op = "update"
          /\ pop.before.stunned
          /\ ~player.stunned

\* a tick has just ended a stun and left the player invulnerable
C12_Witness ==
    /\ pop.op = "update"
    /\ pop.before.stunned
    /\ pop.before.invulTimer <= 0
    /\ ~player.stunned
    /\ player.invulTimer > 0

(***************************************************************************)
(* A stun from its start to the end of the invulnerability that follows:   *)
(* stun requests and ticks only.  octx holds the character and the         *)
(* attributes mode the player was made with; ticks is history: the         *)
(* simulated ms run since the start of the tick in which the last stun     *)
(* ended, -1 while no stun has ended since the last one began; psteps is   *)
(* the simulated ms run in all.  A run keeps one frame time.               *)
(***************************************************************************)
StunTickSet == {50, 100}

InitStun ==
    /\ \E c \in 0..3, a \in BOOLEAN, dt \in StunTickSet :
          /\ player = NewPlayer(c, a)
          /\ octx = [charIdx |-> c, attributesMode |-> a, dtMs |-> dt]
    /\ psteps = 0
    /\ pop = [op |-> "new", arg |-> 0, before |-> player]
    /\ game = [state |-> "playing"]
    /\ owl = [threat |-> 0]
    /\ osteps = 0
    /\ oop = << >>
    /\ timers = << >>
    /\ frames = 0
    /\ runA = << >>
    /\ runB = << >>
    /\ ticks = 0 - 1
    /\ pat = << >>
    /\ coll = << >>

\* an obstacle or projectile hit calls player.stun(d); one stun takes
\* effect in a run, requests during it and during the invulnerability go on
SStun ==
    /\ player.stunCount = 0 \/ player.stunned \/ player.invulTimer > 0
    /\ \E d \in StunDurations :
         \E p \in {stun(player, d)} :
            /\ player' = p
            /\ pop' = [op |-> "stun", arg |-> d, before |-> player]
            /\ ticks' = IF p.stunned /\ ~player.stunned THEN 0 - 1 ELSE ticks
    /\ psteps' = psteps
    /\ UNCHANGED <<game, owl, octx, osteps, oop, timers, frames, runA, runB, pat, coll>>

\* a tick: player.update(dt)
SUpdate ==
    /\ \E dt \in {octx.dtMs} :
         \E p \in {Player_update(player, dt)} :
            /\ psteps + dt <= MaxStunTime
            /\ player' = p
            /\ pop' = [op |-> "update", arg |-> dt, before |-> player]
            /\ ticks' = IF player.stunned /\ ~p.stunned THEN dt
                        ELSE IF ticks >= 0 THEN ticks + dt
                        ELSE ticks
            /\ psteps' = psteps + dt
    /\ UNCHANGED <<game, owl, octx, osteps, oop, timers, frames, runA, runB, pat, coll>>

NextStun == SStun \/ SUpdate

SpecStun == InitStun /\ [][NextStun]_vars

\* "1200 * (stats.invulMult || 1)" for the character the player was made with
FixedInvul ==
    (1200 * OrOne((IF octx.attributesMode THEN CHARACTERS[octx.charIdx + 1]
                   ELSE NoStats).invulMult)) \div 1000

\* C11: in the tick in which a stun's timer runs out, stunned becomes false
\* and the invulnerability timer starts from 1200 ms times the character's
\* invulnerability multiplier, whatever the stun's duration and multiplier;
\* the player is then invulnerable until that much simulated time has run
C11_FixedInvulnerability ==
    /\ (pop.op = "update" /\ pop.before.stunned /\ pop.before.stunTimer <= pop.arg) =>
          /\ ~player.stunned
          /\ ticks = pop.arg
          /\ player.invulTimer = FixedInvul - pop.arg
    /\ ticks >= 0 =>
          /\ ~player.stunned
          /\ (player.invulTimer > 0 <=> ticks < FixedInvul)

\* the invulnerability that followed a stun of another length has just ended
C11_Witness ==
    /\ pop.op = "update"
    /\ pop.before.invulTimer > 0
    /\ player.invulTimer <= 0
    /\ ticks >= FixedInvul
    /\ player.stunDuration # FixedInvul
    /\ player.stunMult # 1000

(***************************************************************************)
(* Snowdrift contacts followed by free running: the player part of a tick  *)
(* (jump input, Player.update, checkObstacles) with a snowdrift in the     *)
(* player's lane during the contact and with no obstacle afterwards.  No   *)
(* dash, pickup or stun happens.  psteps counts the contact ticks; frames  *)
(* is the frame number modulo FrameWrap, standing for the clock that keeps *)
(* running.                                                                *)
(***************************************************************************)
InitSlow ==
    /\ \E c \in 0..3, a \in BOOLEAN :
          /\ player = NewPlayer(c, a)
          /\ octx = [charIdx |-> c, attributesMode |-> a]
    /\ psteps = 0
    /\ pop = [op |-> "new", arg |-> FALSE, before |-> player]
    /\ game = [state |-> "playing"]
    /\ owl = [threat |-> 0]
    /\ osteps = 0
    /\ oop = << >>
    /\ timers = << >>
    /\ frames = 0
    /\ runA = << >>
    /\ runB = << >>
    /\ ticks = 0
    /\ pat = << >>
    /\ coll = << >>

\* Game._updatePlaying, the player's part: "if (jump) player.jump()",
\* player.update(dt), collision.checkObstacles(player, obstacles)
SlowTickPlayer(p, jumpPressed, obstacles) ==
    checkObstacles(Player_update(IF jumpPressed THEN jump(p) ELSE p, 100),
                   obstacles).player

\* a tick with a snowdrift in the player's lane, down at the player
SlowContact ==
    /\ psteps < MaxContacts
    /\ psteps = 0 \/ pop.op = "contact"
    /\ \E j \in BOOLEAN :
          /\ player' = SlowTickPlayer(player, j,
                          <<NewObstacle("snowdrift", 2, lanePositions[2], PlayerY, FALSE)>>)
          /\ pop' = [op |-> "contact", arg |-> j, before |-> player]
    /\ psteps' = psteps + 1
    /\ frames' = (frames + 1) % FrameWrap
    /\ UNCHANGED <<game, owl, octx, osteps, oop, timers, runA, runB, ticks, pat, coll>>

\* a tick with no obstacle near the player
SlowFree ==
    /\ \E j \in BOOLEAN :
          /\ player' = SlowTickPlayer(player, j, << >>)
          /\ pop' = [op |-> "free", arg |-> j, before |-> player]
    /\ frames' = (frames + 1) % FrameWrap
    /\ UNCHANGED <<psteps, game, owl, octx, osteps, oop, timers, runA, runB, ticks, pat, coll>>

NextSlow == SlowContact \/ SlowFree

\* the game loop keeps ticking
SpecSlow == InitSlow /\ [][NextSlow]_vars /\ WF_vars(SlowFree)

\* the contact is over: a free tick has followed the contact ticks
ContactOver == psteps > 0 /\ pop.op = "free"

\* C20: once a snowdrift contact is over, with ticks going on and no further
\* contact, pickup or dash, the player's speed eventually is baseSpeed again
C20_SpeedRecovers == ContactOver ~> (player.speed = player.baseSpeed)

(***************************************************************************)
(* Pickup.js and CollisionSystem.checkPickups                              *)
(***************************************************************************)
\* Pickup constructor; bob is Math.sin(bobPhase) * 4 in hundredths of a pixel
NewPickup(type, lane, x, y, bob) ==
    [ type |-> type, lane |-> lane, x |-> x, y |-> y, w |-> 28,
      active |-> TRUE, collected |-> FALSE, collectTimer |-> 0, bob |-> bob ]

Pickup_checkCollect(pk, hb) ==
    /\ ~pk.collected
    /\ aabbCollide(hb, [ x |-> pk.x - pk.w * 50 - 1000,
                         y |-> pk.y + pk.bob - pk.w * 50 - 1000,
                         w |-> pk.w * 100 + 2000,
                         h |-> pk.w * 100 + 2000 ])

checkPickupsCollectedToo(p, pickups) ==
    SelectSeq(pickups, LAMBDA pk : pk.active
                                    /\ Pickup_checkCollect([pk EXCEPT !.collected = FALSE],
                                                           Player_getHitbox(p)))

\* the pickups collected by the call, in order
checkPickups(p, pickups) ==
    SelectSeq(pickups, LAMBDA pk : pk.active /\ ~pk.collected
                                    /\ Pickup_checkCollect(pk, Player_getHitbox(p)))

(***************************************************************************)
(* game.js and the frame loop of main.js                                   *)
(*                                                                         *)
(* A world W is [g, p, o, t]: the Game's fields, its player and owl (both  *)
(* null until the first startLevel: g.hasLevel), and the pending           *)
(* setTimeout callbacks of the Game (ms left).  The obstacles and pickups  *)
(* that have scrolled to the player's row are given to each tick by the    *)
(* environment.  Score, streak, special events, NPCs, upgrades and the     *)
(* level-complete and upgrade screens are outside this specification.      *)
(* g.gameOverCalls and g.lastTick are history: the calls of _gameOver      *)
(* since the last startLevel, and what the playing ticks of the last step  *)
(* did: whether a swoop started, whether threat reached 1.0 in the last    *)
(* tick, whether some tick reached 1.0 and did not end in game over        *)
(* (missed), and which of the two game-over checks of the last tick held.  *)
(***************************************************************************)
NoTick == [ran |-> FALSE, started |-> FALSE, reachedOne |-> FALSE, missed |-> FALSE,
           captured |-> FALSE, caught |-> FALSE]

NewGame(selectedChar, attributesMode) ==
    [ state |-> "title", level |-> 1, hasLevel |-> FALSE,
      selectedCharIdx |-> selectedChar, charSelectIdx |-> selectedChar,
      attributesMode |-> attributesMode,
      pauseMenuIdx |-> 0, wasInShadow |-> FALSE, shadowDodgeTimer |-> 0,
      swoopsDodged |-> 0, runHits |-> 0, totalChopped |-> 0, noStun |-> FALSE,
      buffer |-> "none", gameOverCalls |-> 0, lastTick |-> NoTick ]

NoTimers == [lerp |-> << >>, lantern |-> << >>]

\* Game._checkAchievements (shadow_dancer needs 10 dodges, lumberjack 20 chops)
Game_checkAchievements(g) ==
    IF g.runHits = 0 /\ ~g.noStun THEN [g EXCEPT !.noStun = TRUE] ELSE g

\* Game._gameOver
Game_gameOver(W) ==
    [W EXCEPT !.g = Game_checkAchievements(
                        [W.g EXCEPT !.state = "gameover",
                                    !.gameOverCalls = W.g.gameOverCalls + 1]),
              !.o = cancelSwoop(W.o)]

\* Game.startLevel
Game_startLevel(W, levelNum) ==
    [W EXCEPT !.g = [W.g EXCEPT !.level = levelNum, !.hasLevel = TRUE,
                                !.swoopsDodged = 0, !.runHits = 0,
                                !.wasInShadow = FALSE, !.shadowDodgeTimer = 0,
                                !.state = "playing", !.gameOverCalls = 0],
              !.p = NewPlayer(W.g.selectedCharIdx, W.g.attributesMode),
              !.o = NewOwl]

\* Game._applyPickup; the lucky bell changes the spawner's interval only
Game_applyPickup(W, type) ==
    CASE type = "feather_axe" -> [W EXCEPT !.p.hasAxe = TRUE]
      [] type = "wind_gust" ->
            [W EXCEPT !.p.speed = (W.p.baseSpeed * 15) \div 10,
                      !.p.dashing = TRUE, !.p.dashTimer = 2000,
                      !.o = decreaseThreat(W.o, WIND_GUST_THREAT)]
      [] type = "hot_cocoa" ->
            [W EXCEPT !.p.stunMult = Max(300, (W.p.stunMult * 6) \div 10)]
      [] type = "lantern_charm" ->
            [W EXCEPT !.o.shadowWarningDuration = Min(W.o.shadowWarningDuration, 1200),
                      !.t.lantern = Append(W.t.lantern, 10000)]
      [] OTHER -> W

RECURSIVE ApplyPickups(_, _, _)
ApplyPickups(W, collected, i) ==
    IF i > Len(collected) THEN W
    ELSE ApplyPickups(Game_applyPickup(W, collected[i].type), collected, i + 1)

\* the loop over the hits of Game._updatePlaying
RECURSIVE ApplyHits(_, _, _)
ApplyHits(W, hits, i) ==
    IF i > Len(hits) THEN W
    ELSE ApplyHits(
           CASE hits[i].type = "stun" ->
                  [W EXCEPT !.g.runHits = W.g.runHits + 1,
                            !.o = increaseThreat(W.o, STUN_HIT_THREAT)]
             [] hits[i].type = "chop" ->
                  [W EXCEPT !.g.totalChopped = W.g.totalChopped + 1]
             [] hits[i].type = "ice" ->
                  [W EXCEPT !.p.lerpSpeed = 4, !.t.lerp = Append(W.t.lerp, 1500)]
             [] OTHER -> W,
           hits, i + 1)

\* the key codes pressed, one keydown at most per frame.  The character,
\* help, settings and upgrade screens are entered by none of them
Keys == {"none", "Enter", "Space", "Escape", "ArrowLeft", "ArrowDown", "ShiftLeft"}

\* codes whose 150 ms buffer the playing tick consumes
Bufferable == {"ArrowLeft", "ArrowRight", "Space"}

\* Game._updatePlaying, "Input": B are the buffered codes the tick consumes,
\* key the code whose keydown came since the last frame
InputLeft(p, B) == IF "ArrowLeft" \in B THEN moveLeft(p) ELSE p
InputRight(p, B) == IF "ArrowRight" \in B THEN moveRight(p) ELSE p
InputJump(p, B) == IF "Space" \in B THEN jump(p) ELSE p
InputDash(p, key) == IF key = "ShiftLeft" THEN dash(p) ELSE p

TickInput(W, key, B) ==
    [W EXCEPT !.p = InputDash(InputJump(InputRight(InputLeft(W.p, B), B), B), key)]

\* "Player update"
TickPlayer(W, dtMs) == [W EXCEPT !.p = Player_update(W.p, dtMs)]

\* history of the tick that begins: whether its Owl.update starts a swoop
TickBegin(W, dtMs) ==
    [W EXCEPT !.g.lastTick =
        [ran |-> TRUE,
         started |-> W.g.lastTick.started \/ SwoopTriggers(W.o, dtMs),
         reachedOne |-> FALSE,
         missed |-> W.g.lastTick.missed,
         captured |-> FALSE, caught |-> FALSE]]

\* history: threat stands at 1.0 at this point of the tick
MarkReached(W) ==
    [W EXCEPT !.g.lastTick.reachedOne = W.g.lastTick.reachedOne \/ W.o.threat >= THREAT_ONE]

ShadowWarnMult(g) ==
    IF g.attributesMode
    THEN OrOne(CHARACTERS[g.selectedCharIdx + 1].shadowWarningMult)
    ELSE 1000

\* "Owl": rnd are the Math.random() outcomes of a swoop that starts
TickOwl(W, dtMs, rnd) ==
    [W EXCEPT !.o = Owl_update(W.o, dtMs, Min(W.g.level, 8), ShadowWarnMult(W.g), rnd)]

\* "Owl threat based on player performance"
TickThreat(W, dtMs) ==
    MarkReached([W EXCEPT !.o = IF W.p.stunned THEN increaseThreat(W.o, 80 * dtMs)
                                ELSE IF ~W.p.dashing THEN decreaseThreat(W.o, 12 * dtMs)
                                ELSE decreaseThreat(W.o, 25 * dtMs)])

\* "Track shadow zone"
ShadowZone(W, dtMs, inShadow) ==
    IF inShadow
    THEN [W EXCEPT !.o = increaseThreat(W.o, 60 * dtMs),
                   !.g.shadowDodgeTimer = W.g.shadowDodgeTimer + dtMs]
    ELSE W

ShadowDodge(W, inShadow) ==
    IF W.g.wasInShadow /\ ~inShadow /\ W.g.shadowDodgeTimer > 200
    THEN [W EXCEPT !.g.swoopsDodged = W.g.swoopsDodged + 1,
                   !.p.swoopsDodged = W.p.swoopsDodged + 1,
                   !.g.shadowDodgeTimer = 0,
                   !.g.wasInShadow = inShadow]
    ELSE [W EXCEPT !.g.wasInShadow = inShadow]

TickShadowWith(W, dtMs, inShadow) ==
    MarkReached(ShadowDodge(ShadowZone(W, dtMs, inShadow), inShadow))

TickShadow(W, dtMs) ==
    TickShadowWith(W, dtMs, isPlayerInShadow(W.o, Player_getHitbox(W.p)))

\* "Collisions": checkObstacles, then the loop over its hits
HitsApplied(W, c) == MarkReached(ApplyHits([W EXCEPT !.p = c.player], c.hits, 1))

TickCollisions(W, obstacles) == HitsApplied(W, checkObstacles(W.p, obstacles))

\* "Pickups"
TickPickups(W, pickups) == ApplyPickups(W, checkPickups(W.p, pickups), 1)

\* history: which of the two game-over checks hold at the end of the tick, and
\* whether threat stood at 1.0 in a tick that passes both
MarkVerdict(W, captured, caught) ==
    [W EXCEPT !.g.lastTick.captured = captured,
              !.g.lastTick.caught = caught,
              !.g.lastTick.missed = W.g.lastTick.missed
                  \/ (W.g.lastTick.reachedOne /\ ~captured /\ ~caught)]

\* "Swoop capture check" and "Owl capture: threat reaches 1"
TickVerdict(W, captured, caught) ==
    IF captured THEN Game_gameOver(MarkVerdict(W, captured, caught))
    ELSE IF caught THEN Game_gameOver(MarkVerdict(W, captured, caught))
    ELSE MarkVerdict(W, captured, caught)

TickEnd(W) == TickVerdict(W, checkOwlCapture(W.p, W.o), W.o.threat >= THREAT_ONE)

\* Game._updatePlaying from the input to the game-over checks
Game_updatePlaying(W, dtMs, key, B, obstacles, pickups, rnd) ==
    IF key = "Escape"
    THEN [W EXCEPT !.g.state = "paused", !.g.pauseMenuIdx = 0]
    ELSE TickEnd(
           TickPickups(
             TickCollisions(
               TickShadow(
                 TickThreat(
                   TickOwl(
                     TickBegin(
                       TickPlayer(TickInput(W, key, B), dtMs),
                       dtMs),
                     dtMs, rnd),
                   dtMs),
                 dtMs),
               obstacles),
             pickups))

\* Game._updatePaused
Game_updatePaused(W, key) ==
    IF key = "Escape" THEN [W EXCEPT !.g.state = "playing"]
    ELSE IF key = "ArrowUp"
    THEN [W EXCEPT !.g.pauseMenuIdx = Max(0, W.g.pauseMenuIdx - 1)]
    ELSE IF key \in {"ArrowDown", "KeyS"}
    THEN [W EXCEPT !.g.pauseMenuIdx = Min(2, W.g.pauseMenuIdx + 1)]
    ELSE IF key \in {"Enter", "Space"}
    THEN CASE W.g.pauseMenuIdx = 0 -> [W EXCEPT !.g.state = "playing"]
           [] W.g.pauseMenuIdx = 1 -> Game_startLevel(W, W.g.level)
           [] OTHER -> [W EXCEPT !.g.state = "title"]
    ELSE W

\* Game.handleUIInput on the title and the game-over screen
Game_handleUIInput(W, key) ==
    CASE W.g.state = "title" ->
           IF key \in {"Enter", "Space"} THEN Game_startLevel(W, W.g.level) ELSE W
      [] W.g.state = "gameover" ->
           IF key = "Enter" THEN Game_startLevel([W EXCEPT !.g.level = 1], 1)
           ELSE IF key = "Escape" THEN [W EXCEPT !.g.state = "title"]
           ELSE W
      [] OTHER -> W

\* the callbacks whose delay runs out while ms of wall-clock time pass: the
\* owl's swoop, the steering restore after ice, the lantern's end
RunDown(q, ms) ==
    LET left == SelectSeq(q, LAMBDA r : r > ms)
    IN [i \in 1..Len(left) |-> left[i] - ms]

Game_timePasses(W, ms) ==
    IF ~W.g.hasLevel THEN W
    ELSE LET o1 == Owl_timePasses(W.o, ms)
             o2 == IF \E i \in 1..Len(W.t.lantern) : W.t.lantern[i] <= ms
                   THEN [o1 EXCEPT !.shadowWarningDuration = 2000] ELSE o1
             p1 == IF \E i \in 1..Len(W.t.lerp) : W.t.lerp[i] <= ms
                   THEN [W.p EXCEPT !.lerpSpeed = 8] ELSE W.p
         IN [W EXCEPT !.o = o2, !.p = p1,
                      !.t = [lerp |-> RunDown(W.t.lerp, ms),
                             lantern |-> RunDown(W.t.lantern, ms)]]

(***************************************************************************)
(* The game, frame by frame.  A frame of main.js's loop: the time since    *)
(* the last frame has passed (timers ran), handleUIInput runs when the     *)
(* state is neither playing nor paused, then Game.update with the capped   *)
(* delta, then input.update clears the pressed keys.  A step of the        *)
(* specification is one frame, or a run of frames of a playing game during *)
(* which no key is pressed and the same obstacle stays in the player's     *)
(* row; the run ends early when the game stops playing.                    *)
(***************************************************************************)
\* what can be in the player's row in a tick: an obstacle in the middle lane
\* (a tree is 80 px long and stays for several ticks), a pickup behind it
GameObstacleLists ==
    { << >> } \cup { << NewObstacle(t, 2, lanePositions[2], PlayerY, FALSE) >> :
                       t \in {"log", "tree"} }
GamePickupLists ==
    { << >> } \cup { << NewPickup(t, 2, lanePositions[2], PlayerY - 2000, 0) >> :
                       t \in {"wind_gust", "feather_axe"} }

\* a step's input: the number of frames, the wall-clock ms between frames,
\* the key pressed before the first frame, whether a code buffered before
\* the last frame is still buffered, the obstacles in the player's row
\* during the step and the pickups that reach it in the last frame
GameInputs ==
    { [n |-> 1, rdt |-> 100, key |-> k, survive |-> sv,
       obstacles |-> << >>, pickups |-> << >>] :
        k \in Keys \ {"none"}, sv \in {b \in BOOLEAN : b => game.buffer # "none"} }
    \cup
    { [n |-> 1, rdt |-> r, key |-> "none", survive |-> FALSE,
       obstacles |-> obs, pickups |-> << >>] :
        r \in WaitSet, obs \in GameObstacleLists }
    \cup
    { [n |-> k, rdt |-> 100, key |-> "none", survive |-> FALSE,
       obstacles |-> obs, pickups |-> pk] :
        k \in {1, MaxHold}, obs \in GameObstacleLists, pk \in GamePickupLists }

World == [g |-> game, p |-> player, o |-> owl, t |-> timers]

\* the Game after its constructor, with an empty localStorage
Init ==
    /\ game = NewGame(0, TRUE)
    /\ player = NewPlayer(0, FALSE)
    /\ owl = NewOwl
    /\ timers = NoTimers
    /\ frames = 0
    /\ psteps = 0
    /\ pop = [op |-> "new", arg |-> 0, before |-> player]
    /\ octx = << >>
    /\ osteps = 0
    /\ oop = << >>
    /\ runA = << >>
    /\ runB = << >>
    /\ ticks = 0
    /\ pat = << >>
    /\ coll = << >>

\* Game.update: only the playing and the paused state have a tick
Game_update(W, dtMs, key, B, obstacles, pickups, rnd) ==
    CASE W.g.state = "playing" ->
            Game_updatePlaying(W, dtMs, key, B, obstacles, pickups, rnd)
      [] W.g.state = "paused" -> Game_updatePaused(W, key)
      [] OTHER -> W

\* loop(): "if (game.state !== 'playing' && game.state !== 'paused') game.handleUIInput()"
FrameUI(W, key) ==
    IF W.g.state \notin {"playing", "paused"} THEN Game_handleUIInput(W, key) ELSE W

\* one pass of loop(): timers, handleUIInput, update
Frame(W, rdt, key, B, obstacles, pickups, rnd) ==
    Game_update(FrameUI(Game_timePasses(W, rdt), key),
                CapDt(rdt), key, B, obstacles, pickups, rnd)

\* frames i..n of a step: RunFrames runs frame i, RunRest the frames after it
RECURSIVE RunFrames(_, _, _, _, _)
RECURSIVE RunRest(_, _, _, _, _)
RunRest(W1, inp, B, rnd, i) ==
    IF i >= inp.n \/ W1.g.state # "playing" THEN W1
    ELSE RunFrames(W1, inp, B, rnd, i + 1)

RunFrames(W, inp, B, rnd, i) ==
    RunRest(Frame(W, inp.rdt, IF i = 1 THEN inp.key ELSE "none",
                  IF i = 1 THEN B ELSE {}, inp.obstacles,
                  IF i = inp.n THEN inp.pickups ELSE << >>, rnd),
            inp, B, rnd, i)

\* the codes buffered at the step's first frame: one buffered before the last
\* frame that has not expired, and the key pressed now
BufferedCodes(inp) ==
    (IF game.buffer # "none" /\ inp.rdt < 150 /\ inp.survive THEN {game.buffer} ELSE {})
        \cup ({inp.key} \cap Bufferable)

\* input.js: a code pressed stays buffered when no playing tick consumed it
BufferAfter(W, inp) ==
    IF ~W.g.lastTick.ran /\ inp.key \in Bufferable THEN inp.key ELSE "none"

GFrame ==
    /\ frames < MaxFrames
    /\ \E inp \in GameInputs :
        /\ (inp.n > 1 => game.state = "playing")
        /\ \E Wa \in {[World EXCEPT !.g.lastTick = NoTick]} :
           \E dry \in {RunFrames(Wa, inp, BufferedCodes(inp), NoRandom, 1)} :
           \E rnd \in (IF dry.g.lastTick.started THEN SwoopRandom(Min(dry.g.level, 8))
                        ELSE {NoRandom}) :
           \E W2 \in {IF dry.g.lastTick.started
                       THEN RunFrames(Wa, inp, BufferedCodes(inp), rnd, 1) ELSE dry} :
              /\ game' = [W2.g EXCEPT !.buffer = BufferAfter(W2, inp)]
              /\ player' = W2.p
              /\ owl' = W2.o
              /\ timers' = W2.t
    /\ frames' = frames + 1
    /\ UNCHANGED <<psteps, pop, octx, osteps, oop, runA, runB, ticks, pat, coll>>

Next == GFrame

Spec == Init /\ [][Next]_vars

\* C2: a playing tick in which threat reaches 1.0 ends in 'gameover', and
\* _gameOver runs at most once between two level starts
C2_GameOverOnce ==
    /\ game.gameOverCalls <= 1
    /\ ~game.lastTick.missed

\* C13: the player is never dashing and stunned at once
C13_NeverDashingAndStunned ==
    ~(player.dashing /\ player.stunned)

\* C14: whenever the player is stunned the speed is 0.4 * baseSpeed
C14_StunnedAtStunSpeed ==
    player.stunned => player.speed = (player.baseSpeed * 4) \div 10

(***************************************************************************)
(* A run of the game from screen to screen: title, levels, pause, level    *)
(* complete, upgrade, game over.  The game keeps its upgrades, its level,  *)
(* the achievements and the spawner's obstacle interval; timers holds the  *)
(* delays of the pending setTimeout callbacks (lucky bell, upgrade         *)
(* screen).  A tick of a level is taken with what the collision systems    *)
(* reported in it; the player's motion and timers are not followed here.   *)
(* pop is history: the last operation, its argument, stunMult before it,   *)
(* and whether a game over had happened since the last level start.  The  *)
(* spawner's obstacleInterval is 2200 * 1.3^intervalPower: the lucky bell  *)
(* multiplies it by 1.3 and its callback divides it by 1.3.                *)
(***************************************************************************)
\* the upgrades chosen in the exploration
UpgradeChoices == {"fast_recovery"}

\* Game._applyUpgrades; 'more_pickups' changes the spawner that startLevel
\* is about to replace
RECURSIVE Game_applyUpgrades(_, _, _)
Game_applyUpgrades(p, upgrades, i) ==
    IF i > Len(upgrades) THEN p
    ELSE Game_applyUpgrades(
           CASE upgrades[i] = "long_jump" ->
                  [p EXCEPT !.hangMultiplier = (p.hangMultiplier * 12) \div 10]
             [] upgrades[i] = "fast_recovery" ->
                  [p EXCEPT !.stunMult = (p.stunMult * 75) \div 100]
             [] upgrades[i] = "dash_cooldown" ->
                  [p EXCEPT !.dashCooldownMax = (p.dashCooldownMax * 8) \div 10]
             [] upgrades[i] = "small_hitbox" -> [p EXCEPT !.w = p.w - 4]
             [] OTHER -> p,
           upgrades, i + 1)

NewRunGame(selectedChar, attributesMode) ==
    [ state |-> "title", level |-> 1, upgrades |-> << >>,
      selectedCharIdx |-> selectedChar, attributesMode |-> attributesMode,
      pauseMenuIdx |-> 0, runHits |-> 0, noStun |-> FALSE,
      hasSpawner |-> FALSE, intervalPower |-> 0,
      overSinceStart |-> FALSE, noStunAt |-> "none", noStunStuns |-> 0 ]

\* Game.startLevel: a new player with the upgrades applied, a new spawner
Run_startLevel(R, levelNum) ==
    [R EXCEPT !.g = [R.g EXCEPT !.level = levelNum, !.runHits = 0,
                                !.hasSpawner = TRUE,
                                !.intervalPower = 0,
                                !.overSinceStart = FALSE,
                                !.state = "playing"],
              !.p = Game_applyUpgrades(NewPlayer(R.g.selectedCharIdx, R.g.attributesMode),
                                       R.g.upgrades, 1)]

\* Game._checkAchievements, achievements.no_stun; noStunAt and noStunStuns
\* record the screen and the player's stun count at the unlock
Run_checkAchievements(R) ==
    IF R.g.runHits = 0 /\ ~R.g.noStun
    THEN [R EXCEPT !.g.noStun = TRUE, !.g.noStunAt = R.g.state,
                   !.g.noStunStuns = R.p.stunCount]
    ELSE R

\* Game._gameOver
Run_gameOver(R) ==
    Run_checkAchievements([R EXCEPT !.g.state = "gameover", !.g.overSinceStart = TRUE])

\* Game._levelComplete
Run_levelComplete(R) ==
    Run_checkAchievements([R EXCEPT !.g.state = "levelcomplete",
                                    !.t.upgrade = Append(R.t.upgrade, 2000)])

\* Game._applyPickup for the hot cocoa and the lucky bell
Run_applyPickup(R, type) ==
    CASE type = "hot_cocoa" ->
            [R EXCEPT !.p.stunMult = Max(300, (R.p.stunMult * 6) \div 10)]
      [] type = "lucky_bell" ->
            [R EXCEPT !.g.intervalPower = R.g.intervalPower + 1,
                      !.t.bell = Append(R.t.bell, 8000)]
      [] OTHER -> R

\* the loop over the hits: 'stun' hits count as run hits, 'projectile' hits
\* do not; the player was stunned by checkObstacles
Run_hits(R, obstacleStun, projectileStun) ==
    [R EXCEPT !.g.runHits = IF obstacleStun THEN R.g.runHits + 1 ELSE R.g.runHits,
              !.p = IF obstacleStun THEN stun(R.p, 1000)
                    ELSE IF projectileStun THEN stun(R.p, PROJECTILE_STUN)
                    ELSE R.p]

\* the end of Game._updatePlaying: game over returns before the level can
\* complete
Run_verdict(R, over, reached) ==
    IF over THEN Run_gameOver(R)
    ELSE IF reached THEN Run_levelComplete(R)
    ELSE R

\* Game._updatePlaying
Run_updatePlaying(R, escape, obstacleStun, projectileStun, pickup, over, reached) ==
    IF escape THEN [R EXCEPT !.g.state = "paused", !.g.pauseMenuIdx = 0]
    ELSE Run_verdict(Run_applyPickup(Run_hits(R, obstacleStun, projectileStun), pickup),
                     over, reached)

\* Game._updatePaused
Run_updatePaused(R, key) ==
    IF key = "Escape" THEN [R EXCEPT !.g.state = "playing"]
    ELSE IF key = "ArrowDown"
    THEN [R EXCEPT !.g.pauseMenuIdx = Min(2, R.g.pauseMenuIdx + 1)]
    ELSE IF key = "Enter"
    THEN CASE R.g.pauseMenuIdx = 0 -> [R EXCEPT !.g.state = "playing"]
           [] R.g.pauseMenuIdx = 1 -> Run_startLevel(R, R.g.level)
           [] OTHER -> [R EXCEPT !.g.state = "title"]
    ELSE R

\* Game.handleUIInput on the title, upgrade and game-over screens; chosen is
\* the upgrade under the cursor
Run_handleUIInput(R, key, chosen) ==
    CASE R.g.state = "title" ->
           IF key = "Enter" THEN Run_startLevel(R, R.g.level) ELSE R
      [] R.g.state = "upgrade" ->
           IF key = "Enter"
           THEN Run_startLevel([R EXCEPT !.g.upgrades = Append(R.g.upgrades, chosen)],
                               R.g.level + 1)
           ELSE IF key = "KeyN" THEN Run_startLevel(R, R.g.level + 1)
           ELSE R
      [] R.g.state = "gameover" ->
           IF key = "Enter"
           THEN Run_startLevel([R EXCEPT !.g.upgrades = << >>, !.g.level = 1], 1)
           ELSE IF key = "Escape" THEN [R EXCEPT !.g.state = "title"]
           ELSE R
      [] OTHER -> R

\* how many delays of q run out within ms
Expired(q, ms) == Len(SelectSeq(q, LAMBDA r : r <= ms))

\* the setTimeout callbacks that run while ms of wall-clock time pass
Run_timePasses(R, ms) ==
    [R EXCEPT !.g.intervalPower =
                 IF R.g.hasSpawner
                 THEN R.g.intervalPower - Expired(R.t.bell, ms)
                 ELSE R.g.intervalPower,
              !.g.state = IF Expired(R.t.upgrade, ms) > 0 /\ R.g.state = "levelcomplete"
                          THEN "upgrade" ELSE R.g.state,
              !.t = [bell |-> RunDown(R.t.bell, ms),
                     upgrade |-> RunDown(R.t.upgrade, ms)]]

RunWorld == [g |-> game, p |-> player, t |-> timers]

InitRun ==
    /\ \E c \in {0, 2} :
          /\ game = NewRunGame(c, TRUE)
          /\ player = NewPlayer(c, TRUE)
    /\ psteps = 0
    /\ pop = [op |-> "new", arg |-> "none", stunMult |-> 0, over |-> FALSE]
    /\ owl = [threat |-> 0]
    /\ octx = << >>
    /\ osteps = 0
    /\ oop = << >>
    /\ timers = [bell |-> << >>, upgrade |-> << >>]
    /\ frames = 0
    /\ runA = << >>
    /\ runB = << >>
    /\ ticks = 0
    /\ pat = << >>
    /\ coll = << >>

RunStep(name, arg, R) ==
    /\ game' = R.g
    /\ player' = R.p
    /\ timers' = R.t
    /\ pop' = [op |-> name, arg |-> arg, stunMult |-> player.stunMult,
               over |-> game.overSinceStart]
    /\ UNCHANGED <<psteps, owl, octx, osteps, oop, frames, runA, runB, ticks, pat, coll>>

\* a frame on a screen that handleUIInput serves
RKey ==
    /\ game.state \in {"title", "upgrade", "gameover"}
    /\ \E key \in {"Enter", "KeyN", "Escape"}, chosen \in UpgradeChoices :
          /\ (key \in {"Enter", "KeyN"} /\ game.state = "upgrade") => game.level < MaxLevel
          /\ \E R \in {Run_handleUIInput(RunWorld, key, chosen)} :
                RunStep(IF R.g.state = "playing" THEN "startLevel" ELSE "key", key, R)

\* a frame of the pause menu
RPaused ==
    /\ game.state = "paused"
    /\ \E key \in {"Escape", "ArrowDown", "Enter"} :
          \E R \in {Run_updatePaused(RunWorld, key)} :
             RunStep(IF key = "Enter" /\ game.pauseMenuIdx = 1 THEN "startLevel" ELSE "key",
                     key, R)

\* a tick of a level
RTick ==
    /\ game.state = "playing"
    /\ \E escape, obstacleStun, projectileStun, over, reached \in BOOLEAN,
          pickup \in {"none", "hot_cocoa", "lucky_bell"} :
          /\ escape => ~obstacleStun /\ ~projectileStun /\ ~over /\ ~reached
                          /\ pickup = "none"
          /\ ~(obstacleStun /\ projectileStun)
          /\ ~(over /\ reached)
          /\ obstacleStun => game.runHits < MaxRunHits
          /\ pickup = "lucky_bell" => Len(timers.bell) < MaxBells
          /\ RunStep(IF escape THEN "pause" ELSE "tick", pickup,
                     Run_updatePlaying(RunWorld, escape, obstacleStun, projectileStun,
                                       pickup, over, reached))

\* wall-clock time passes on any screen
RTimePasses ==
    /\ timers.bell # << >> \/ timers.upgrade # << >>
    /\ \E ms \in {2000, 6000} :
          RunStep("time", "none", Run_timePasses(RunWorld, ms))

NextRun == RKey \/ RPaused \/ RTick \/ RTimePasses

SpecRun == InitRun /\ [][NextRun]_vars

\* C21: a hot cocoa never raises the stun multiplier and never leaves it
\* below 0.3
C21_CocoaReducesStun ==
    (pop.op = "tick" /\ pop.arg = "hot_cocoa") =>
        /\ player.stunMult <= pop.stunMult
        /\ player.stunMult >= 300

\* C22: whenever no lucky bell callback is pending, the spawner's obstacle
\* interval is its base value, 2200 ms
C22_BellReverts ==
    (game.hasSpawner /\ timers.bell = << >>) => game.intervalPower = 0

\* C29: a level started after a game over, by Retry or by Menu and Play,
\* starts with no upgrades
C29_UpgradesResetOnGameOver ==
    (pop.op = "startLevel" /\ pop.over) => game.upgrades = << >>

\* C30: the no-stun achievement is unlocked only at the completion of a
\* level in which the player was never stunned, never at a game over
C30_NoStunOnlyOnCleanLevel ==
    game.noStun => (game.noStunAt = "levelcomplete" /\ game.noStunStuns = 0)

(***************************************************************************)
(* Pickups scrolling down to the player: the pickup part of a tick of      *)
(* Game._updatePlaying (input, player.update, scroll and collect timers,   *)
(* filter, checkPickups, _applyPickup).  The pickups of a run lie in       *)
(* different lanes, which tells them apart.  runA holds the pickup list    *)
(* and history per lane: how often the pickup's effect was applied and the *)
(* simulated ms run since it was collected (-1 before).                    *)
(***************************************************************************)
\* Math.sin(bobPhase) * 4, in 1/100 px
BobSet == {0 - 400, 0, 400}

PickupLanes == {2, 3}

\* Pickup.collect
Pickup_collect(pk) == [pk EXCEPT !.collected = TRUE, !.collectTimer = 0]

\* "Pickups: scroll down", the loop body
PickupScroll(pk, scrollAmt, dtMs, bob) ==
    IF pk.collected
    THEN [pk EXCEPT !.bob = bob,
                    !.collectTimer = pk.collectTimer + dtMs,
                    !.active = IF pk.collectTimer + dtMs >= 400 THEN FALSE ELSE pk.active]
    ELSE [pk EXCEPT !.bob = bob, !.y = pk.y + scrollAmt]

\* "this.pickups = this.pickups.filter(p => p.active && p.y < this.ch + 80)"
PickupsScrolled(pickups, scrollAmt, dtMs, bob) ==
    SelectSeq([i \in 1..Len(pickups) |-> PickupScroll(pickups[i], scrollAmt, dtMs, bob)],
              LAMBDA pk : pk.active /\ pk.y < 100 * (CanvasH + 80))

\* the pickup list after checkPickups: the collected ones are marked
PickupsChecked(pickups, collected) ==
    [i \in 1..Len(pickups) |->
        IF \E k \in 1..Len(collected) : collected[k] = pickups[i]
        THEN Pickup_collect(pickups[i]) ELSE pickups[i]]

\* "const scrollAmt = player.speed * dt", in 1/100 px
ScrollAmt(p, dtMs) == (p.speed * dtMs) \div 10000

PickupStart ==
    { <<NewPickup(t, 2, lanePositions[2], y, 0)>> :
        t \in {"feather_axe", "hot_cocoa"}, y \in {PlayerY - 12000, PlayerY - 3000} }
    \cup { <<NewPickup("hot_cocoa", 2, lanePositions[2], PlayerY - 9000, 0),
             NewPickup("feather_axe", 3, lanePositions[3], PlayerY - 6000, 0)>> }

InitPickup ==
    /\ player = NewPlayer(0, FALSE)
    /\ psteps = 0
    /\ pop = [op |-> "new", arg |-> "none", before |-> player]
    /\ game = [state |-> "playing"]
    /\ owl = [threat |-> 0]
    /\ octx = << >>
    /\ osteps = 0
    /\ oop = << >>
    /\ timers = << >>
    /\ frames = 0
    /\ \E start \in PickupStart :
          runA = [pickups |-> start,
                  applied |-> [l \in PickupLanes |-> 0],
                  since |-> [l \in PickupLanes |-> 0 - 1]]
    /\ runB = << >>
    /\ ticks = 0
    /\ pat = << >>
    /\ coll = << >>

\* the player after the effects of the collected pickups
PlayerWithPickups(p, collected) ==
    ApplyPickups([p |-> p, o |-> NewOwl, t |-> NoTimers], collected, 1).p

\* history after a tick of dtMs in which the pickups of collected were applied
PickupHistory(run, collected, dtMs) ==
    [ applied |-> [l \in PickupLanes |->
                     run.applied[l]
                       + Cardinality({k \in 1..Len(collected) : collected[k].lane = l})],
      since |-> [l \in PickupLanes |->
                   IF run.since[l] >= 0 THEN run.since[l] + dtMs
                   ELSE IF \E k \in 1..Len(collected) : collected[k].lane = l THEN 0
                   ELSE run.since[l]] ]

\* the end of the tick, given the player after player.update and the list
\* after the scroll
PickupTickEnd(p, scrolled, collected, dtMs) ==
    /\ player' = PlayerWithPickups(p, collected)
    /\ runA' = [pickups |-> PickupsChecked(scrolled, collected)]
                  @@ PickupHistory(runA, collected, dtMs)

PTick ==
    /\ ticks < MaxPickupTicks
    /\ \E key \in {"none", "Space", "ArrowRight"}, bob \in BobSet :
         \E p \in {Player_update(InputJump(InputRight(player, {key}), {key}), 100)} :
         \E scrolled \in {PickupsScrolled(runA.pickups, ScrollAmt(p, 100), 100, bob)} :
            /\ PickupTickEnd(p, scrolled, checkPickups(p, scrolled), 100)
            /\ pop' = [op |-> "tick", arg |-> key, before |-> player]
    /\ ticks' = ticks + 1
    /\ UNCHANGED <<psteps, game, owl, octx, osteps, oop, timers, frames, runB, pat, coll>>

NextPickup == PTick

SpecPickup == InitPickup /\ [][NextPickup]_vars

\* the pickup of lane l, if it is still in the list
InList(l) == \E i \in 1..Len(runA.pickups) : runA.pickups[i].lane = l

\* C23: a pickup's effect is applied at most once, exactly when the pickup
\* was collected; after a tick no uncollected pickup of the list overlaps the
\* player; a collected pickup stays in the list, active, for less than 400 ms
\* of simulated time and is out of the list from then on
C23_AppliedOnce ==
    /\ \A l \in PickupLanes :
          /\ runA.applied[l] <= 1
          /\ (runA.applied[l] = 1 <=> runA.since[l] >= 0)
          /\ runA.since[l] >= 400 => ~InList(l)
          /\ (runA.since[l] >= 0 /\ runA.since[l] < 400) => InList(l)
    /\ \A i \in 1..Len(runA.pickups) :
          /\ runA.pickups[i].active
          /\ runA.pickups[i].collected <=> runA.since[runA.pickups[i].lane] >= 0
          /\ runA.pickups[i].collected =>
                runA.pickups[i].collectTimer = runA.since[runA.pickups[i].lane]
          /\ (ticks > 0 /\ ~runA.pickups[i].collected) =>
                ~Pickup_checkCollect(runA.pickups[i], Player_getHitbox(player))

\* a cocoa was collected, applied once, and has left the list 400 ms later
\* while another pickup is still on its way
C23_Witness ==
    /\ runA.since[2] = 400
    /\ runA.applied[2] = 1
    /\ ~InList(2)
    /\ InList(3)
    /\ player.stunMult = 600

(***************************************************************************)
(* The shadow zone and the dodge credit: the ticks of a level around one   *)
(* swoop.  The level has been running for a while: an earlier swoop's      *)
(* cooldown is about to run out and stuns have left the threat above the   *)
(* trigger, so the next owl update starts a warning.  A step is one frame  *)
(* of 100 ms with at most one key; no obstacle or pickup is in the         *)
(* player's row; psteps counts the keys pressed.  runA is history: whether the last tick credited a        *)
(* dodge, whether the warning was in progress in that tick, the threat     *)
(* just before and just after the shadow-zone block of a crediting tick,   *)
(* the ms spent inside shadows since the warning began, and the number of  *)
(* warnings begun.                                                         *)
(***************************************************************************)
DodgeKeys == {"none", "Space", "ArrowLeft", "ArrowRight"}

\* Game._updatePlaying from "Input" to "Owl threat based on player performance"
DodgeBefore(W, key, rnd, dtMs) ==
    TickThreat(
      TickOwl(TickBegin(TickPlayer(TickInput(W, "none", {key}), dtMs), dtMs), dtMs, rnd),
      dtMs)

\* Game._updatePlaying after "Track shadow zone", nothing in the player's row
DodgeEnd(Ws) == TickEnd(TickPickups(TickCollisions(Ws, << >>), << >>))

InitDodge ==
    /\ \E W0 \in {Game_startLevel([g |-> NewGame(0, TRUE), p |-> NewPlayer(0, TRUE),
                                   o |-> NewOwl, t |-> NoTimers], 1)} :
          /\ game = W0.g
          /\ player = W0.p
          /\ owl = [W0.o EXCEPT !.threat = 500000, !.swoopCooldown = 100]
          /\ timers = W0.t
    /\ runA = [credited |-> FALSE, active |-> FALSE, before |-> 0, after |-> 0,
               inside |-> 0, swoops |-> 0]
    /\ ticks = 0
    /\ psteps = 0
    /\ pop = << >>
    /\ octx = << >>
    /\ osteps = 0
    /\ oop = << >>
    /\ frames = 0
    /\ runB = << >>
    /\ pat = << >>
    /\ coll = << >>

\* history after a tick: Wb is the game before the shadow-zone block, Ws
\* after it
DodgeHistory(run, W, Wb, Ws, dtMs) ==
    LET credited == Ws.g.swoopsDodged > W.g.swoopsDodged
        started == Wb.g.lastTick.started
    IN [ credited |-> credited,
         active |-> Wb.o.swoopActive,
         before |-> IF credited THEN Wb.o.threat ELSE 0,
         after |-> IF credited THEN Ws.o.threat ELSE 0,
         inside |-> (IF started THEN 0 ELSE run.inside)
                      + (IF isPlayerInShadow(Wb.o, Player_getHitbox(Wb.p))
                         THEN dtMs ELSE 0),
         swoops |-> IF started THEN run.swoops + 1 ELSE run.swoops ]

DTick ==
    /\ ticks < MaxDodgeTicks
    /\ game.state = "playing"
    /\ \E key \in (IF psteps < MaxDodgeKeys THEN DodgeKeys ELSE {"none"}) :
       \E Wt \in {Game_timePasses([World EXCEPT !.g.lastTick = NoTick], 100)} :
       \E rnd \in (IF SwoopTriggers(Wt.o, 100) THEN SwoopRandom(Min(Wt.g.level, 8))
                   ELSE {NoRandom}) :
       \E Wb \in {DodgeBefore(Wt, key, rnd, 100)} :
       \E Ws \in {TickShadow(Wb, 100)} :
       \E W2 \in {DodgeEnd(Ws)} :
          /\ game' = W2.g
          /\ player' = W2.p
          /\ owl' = W2.o
          /\ timers' = W2.t
          /\ runA' = DodgeHistory(runA, Wt, Wb, Ws, 100)
          /\ psteps' = IF key = "none" THEN psteps ELSE psteps + 1
    /\ ticks' = ticks + 1
    /\ UNCHANGED <<pop, octx, osteps, oop, frames, runB, pat, coll>>

NextDodge == DTick

SpecDodge == InitDodge /\ [][NextDodge]_vars

\* C24: a tick that credits a dodge lowers the owl's threat by the credit:
\* the threat after the shadow-zone block is below the threat before it
C24_DodgeLowersThreat ==
    runA.credited => runA.after < runA.before

\* C25: a dodge is credited only in a tick in which the swoop's warning is
\* still in progress, never after the swoop has executed and cleared the
\* shadows
C25_DodgeBeforeExecution ==
    runA.credited => runA.active

\* C26: at most one dodge is credited per swoop, and only after more than
\* 200 ms spent inside its shadows
C26_OneDodgePerSwoop ==
    /\ runA.swoops <= 1 => game.swoopsDodged <= 1
    /\ runA.credited => runA.inside > 200

(***************************************************************************)
(* The owl's swoops over a level: frames of the playing game (the time     *)
(* since the last frame passes, then Owl.update runs with the capped       *)
(* delta), stun hits that raise the threat, and pauses during which only   *)
(* the timers run.  ticks counts the frames, osteps the stun hits.  runA   *)
(* is history: the last operation, whether the last update began a         *)
(* warning and whether a swoop was active when it ran, the simulated ms    *)
(* of the updates since the last execution (-1 before the first), and of   *)
(* the last executed swoop its shadows, the x of the strike lines it       *)
(* pushed, the cooldown it set and whether it left shadows behind.         *)
(***************************************************************************)
SwoopDifficulties == {1, 4}

NoExec == [shadows |-> << >>, lines |-> << >>, cooldown |-> 0, cleared |-> TRUE]

InitSwoop ==
    /\ owl = NewOwl
    /\ octx \in [difficulty : SwoopDifficulties, shadowWarnMult : {1000}]
    /\ runA = [op |-> "new", began |-> FALSE, wasActive |-> FALSE,
               sinceExec |-> 0 - 1, exec |-> NoExec]
    /\ ticks = 0
    /\ osteps = 0
    /\ player = NewPlayer(0, FALSE)
    /\ psteps = 0
    /\ pop = << >>
    /\ game = [state |-> "playing"]
    /\ oop = << >>
    /\ timers = << >>
    /\ frames = 0
    /\ runB = << >>
    /\ pat = << >>
    /\ coll = << >>

\* the timeout's callback ran between o and o1
Executed(o, o1) == o.swoopActive /\ ~o1.swoopActive

\* what the execution between o and o1 did
ExecOf(o, o1) ==
    [ shadows |-> [i \in 1..Len(o.shadows) |->
                     [x |-> o.shadows[i].x, isFake |-> o.shadows[i].isFake]],
      lines |-> [i \in 1..(Len(o1.swoopLines) - Len(o.swoopLines)) |->
                     o1.swoopLines[Len(o.swoopLines) + i].x],
      cooldown |-> o1.swoopCooldown,
      cleared |-> o1.shadows = << >> ]

\* history after a frame: o1 is the owl after the timers, o2 after update
SwoopHistory(run, o, o1, o2, dtMs) ==
    [ op |-> "update",
      began |-> ~o1.swoopActive /\ o2.swoopActive,
      wasActive |-> o1.swoopActive,
      sinceExec |-> IF Executed(o, o1) THEN dtMs
                    ELSE IF run.sinceExec >= 0 THEN run.sinceExec + dtMs
                    ELSE run.sinceExec,
      exec |-> IF Executed(o, o1) THEN ExecOf(o, o1) ELSE run.exec ]

SFrame ==
    /\ ticks < MaxSwoopTicks
    /\ \E rdt \in WaitSet :
       \E o1 \in {Owl_timePasses(owl, rdt)} :
       \E rnd \in (IF SwoopTriggers(o1, CapDt(rdt)) THEN SwoopRandom(octx.difficulty)
                   ELSE {NoRandom}) :
       \E o2 \in {Owl_update(o1, CapDt(rdt), octx.difficulty, octx.shadowWarnMult, rnd)} :
          /\ owl' = o2
          /\ runA' = SwoopHistory(runA, owl, o1, o2, CapDt(rdt))
    /\ ticks' = ticks + 1
    /\ UNCHANGED <<player, psteps, pop, game, octx, osteps, oop, timers, frames,
                   runB, pat, coll>>

\* a stun hit: owl.increaseThreat(0.12)
SHit ==
    /\ osteps < MaxSwoopHits
    /\ owl' = increaseThreat(owl, STUN_HIT_THREAT)
    /\ osteps' = osteps + 1
    /\ runA' = [runA EXCEPT !.op = "increaseThreat", !.began = FALSE]
    /\ UNCHANGED <<player, psteps, pop, game, octx, oop, timers, frames,
                   runB, ticks, pat, coll>>

\* the game is paused while a warning is pending: the timeout runs, no update
SPause ==
    /\ owl.swoopTimeout # NoTimeout
    /\ \E o1 \in {Owl_timePasses(owl, 2000)} :
          /\ owl' = o1
          /\ runA' = [runA EXCEPT !.op = "wait", !.began = FALSE,
                                  !.sinceExec = IF Executed(owl, o1) THEN 0 ELSE @,
                                  !.exec = IF Executed(owl, o1) THEN ExecOf(owl, o1) ELSE @]
    /\ UNCHANGED <<player, psteps, pop, game, octx, osteps, oop, timers, frames,
                   runB, ticks, pat, coll>>

NextSwoop == SFrame \/ SHit \/ SPause

SpecSwoop == InitSwoop /\ [][NextSwoop]_vars

\* C27: the strike lines an executed swoop pushed are, in order, one per
\* non-decoy shadow of that swoop at that shadow's x, and none for a decoy
C27_StrikesUnderRealShadows ==
    \E real \in {SelectSeq(runA.exec.shadows, LAMBDA sh : ~sh.isFake)} :
       /\ Len(runA.exec.lines) = Len(real)
       /\ \A i \in 1..Len(real) : runA.exec.lines[i] = real[i].x

\* a swoop with a decoy on another lane has executed and pushed one line
C27_Witness ==
    /\ Len(runA.exec.shadows) = 2
    /\ runA.exec.shadows[2].isFake
    /\ runA.exec.shadows[2].x # runA.exec.shadows[1].x
    /\ runA.exec.lines = << runA.exec.shadows[1].x >>

\* C28: an update begins a warning exactly when no swoop is active, the
\* cooldown it has just run down is <= 0 and threat >= 0.45; an execution
\* clears the shadows and sets the cooldown to 8000 ms; and a warning that
\* follows an execution begins only after updates worth 8000 ms
C28_WarningAfterCooldown ==
    /\ runA.op = "update" =>
          (runA.began <=> (/\ ~runA.wasActive
                           /\ owl.swoopCooldown <= 0
                           /\ owl.threat >= TRIGGER_THREAT))
    /\ runA.sinceExec >= 0 =>
          (runA.exec.cleared /\ runA.exec.cooldown = SWOOP_COOLDOWN)
    /\ (runA.began /\ runA.sinceExec >= 0) => runA.sinceExec >= SWOOP_COOLDOWN

\* the second warning of a level begins once the cooldown has run out
C28_Witness ==
    /\ runA.began
    /\ runA.sinceExec >= SWOOP_COOLDOWN
    /\ owl.shadows # << >>

(***************************************************************************)
(* Upgrades across levels and page loads.  game.upgrades is the run's      *)
(* list, game.saved the list in localStorage ('snow_owl_upgrades'),        *)
(* game.spawner the pickupInterval of this.spawner (0 while it is null),   *)
(* game.threw whether a handler ended in an uncaught TypeError; loop()     *)
(* then never reaches requestAnimationFrame again and no frame follows.    *)
(* pop is history: the last operation and the upgrades at its start.       *)
(***************************************************************************)
UpgradeIds == {"small_hitbox", "more_pickups"}

\* the upgrades _applyUpgrades gets through: 'more_pickups' dereferences
\* this.spawner, which is null until the first startLevel has finished
RECURSIVE AppliedPrefix(_, _, _)
AppliedPrefix(upgrades, hasSpawner, i) ==
    IF i > Len(upgrades) THEN upgrades
    ELSE IF upgrades[i] = "more_pickups" /\ ~hasSpawner THEN SubSeq(upgrades, 1, i - 1)
    ELSE AppliedPrefix(upgrades, hasSpawner, i + 1)

\* this.spawner.pickupInterval after the loop of _applyUpgrades
RECURSIVE SharpEyes(_, _, _)
SharpEyes(interval, upgrades, i) ==
    IF i > Len(upgrades) THEN interval
    ELSE SharpEyes(IF upgrades[i] = "more_pickups" THEN (interval * 7) \div 10
                   ELSE interval,
                   upgrades, i + 1)

\* Game.startLevel up to "this.spawner = new Spawner": the new player, the
\* upgrades of done applied to it and to the spawner of the level before
Upg_applied(U, levelNum, done) ==
    [U EXCEPT !.g.level = levelNum,
              !.g.spawner = SharpEyes(U.g.spawner, done, 1),
              !.g.threw = Len(done) < Len(U.g.upgrades),
              !.p = Game_applyUpgrades(NewPlayer(0, TRUE), done, 1)]

Upg_applyUpgrades(U, levelNum) ==
    Upg_applied(U, levelNum, AppliedPrefix(U.g.upgrades, U.g.spawner # 0, 1))

\* Game.startLevel from "new Spawner" on, unless _applyUpgrades threw
Upg_newSpawner(U1) ==
    IF U1.g.threw THEN U1
    ELSE [U1 EXCEPT !.g.spawner = PICKUP_INTERVAL, !.g.state = "playing"]

Upg_startLevel(U, levelNum) == Upg_newSpawner(Upg_applyUpgrades(U, levelNum))

\* Game.handleUIInput on the title, upgrade and game-over screens
Upg_handleUIInput(U, key, chosen) ==
    CASE U.g.state = "title" ->
           IF key = "Enter" THEN Upg_startLevel(U, U.g.level) ELSE U
      [] U.g.state = "upgrade" ->
           IF key = "Enter"
           THEN Upg_startLevel([U EXCEPT !.g.upgrades = Append(U.g.upgrades, chosen),
                                         !.g.saved = Append(U.g.upgrades, chosen)],
                               U.g.level + 1)
           ELSE IF key = "KeyN" THEN Upg_startLevel(U, U.g.level + 1)
           ELSE U
      [] U.g.state = "gameover" ->
           IF key = "Enter"
           THEN Upg_startLevel([U EXCEPT !.g.upgrades = << >>, !.g.saved = << >>,
                                         !.g.level = 1], 1)
           ELSE IF key = "Escape" THEN [U EXCEPT !.g.state = "title"]
           ELSE U
      [] OTHER -> U

\* the Game constructor on a page load: upgrades come from localStorage
Upg_newGame(saved) ==
    [ state |-> "title", level |-> 1, upgrades |-> saved, saved |-> saved,
      spawner |-> 0, threw |-> FALSE ]

UpgWorld == [g |-> game, p |-> player]

InitUpgrade ==
    /\ game = Upg_newGame(<< >>)
    /\ player = NewPlayer(0, TRUE)
    /\ pop = [op |-> "new", upgrades |-> << >>]
    /\ psteps = 0
    /\ owl = [threat |-> 0]
    /\ octx = << >>
    /\ osteps = 0
    /\ oop = << >>
    /\ timers = << >>
    /\ frames = 0
    /\ runA = << >>
    /\ runB = << >>
    /\ ticks = 0
    /\ pat = << >>
    /\ coll = << >>

UpgStep(name, U) ==
    /\ game' = U.g
    /\ player' = U.p
    /\ pop' = [op |-> name, upgrades |-> U.g.upgrades]
    /\ UNCHANGED <<psteps, owl, octx, osteps, oop, timers, frames, runA, runB, ticks,
                   pat, coll>>

\* a frame on a screen that handleUIInput serves; the upgrade screen offers
\* three of the five upgrades in a random order
UKey ==
    /\ ~game.threw
    /\ game.state \in {"title", "upgrade", "gameover"}
    /\ \E key \in {"Enter", "KeyN", "Escape"}, chosen \in UpgradeIds :
          /\ game.state = "upgrade" =>
                (game.level < MaxLevel /\ Len(game.upgrades) < MaxUpgrades)
          /\ \E U \in {Upg_handleUIInput(UpgWorld, key, chosen)} :
                UpgStep(IF U.g.state = "playing" \/ U.g.threw THEN "startLevel"
                        ELSE "key", U)

\* the tick in which the level's length is reached, and the timeout that
\* opens the upgrade screen 2 s later
ULevelComplete ==
    /\ ~game.threw
    /\ game.state = "playing"
    /\ UpgStep("levelcomplete", [UpgWorld EXCEPT !.g.state = "upgrade"])

\* a tick that ends in game over
UGameOver ==
    /\ ~game.threw
    /\ game.state = "playing"
    /\ UpgStep("gameover", [UpgWorld EXCEPT !.g.state = "gameover"])

\* the page is loaded again: main.js constructs a new Game
UReload == UpgStep("new", [g |-> Upg_newGame(game.saved), p |-> NewPlayer(0, TRUE)])

NextUpgrade == UKey \/ ULevelComplete \/ UGameOver \/ UReload

SpecUpgrade == InitUpgrade /\ [][NextUpgrade]_vars

\* C31: a startLevel with Sharp Eyes among the upgrades ends in 'playing'
\* with a spawner whose pickup interval is below the base 5000 ms
C31_SharpEyesShortensInterval ==
    (pop.op = "startLevel" /\ \E i \in 1..Len(pop.upgrades) : pop.upgrades[i] = "more_pickups")
        => (game.state = "playing" /\ game.spawner # 0 /\ game.spawner < PICKUP_INTERVAL)

\* C38: the run's upgrade list never holds the same id twice
C38_NoUpgradeTwice ==
    \A i, j \in 1..Len(game.upgrades) : i # j => game.upgrades[i] # game.upgrades[j]

(***************************************************************************)
(* Persisted state.  octx is localStorage at page load, one entry per key: *)
(* absent, a text JSON.parse rejects, or a text it accepts together with   *)
(* the value it yields.  A value is a number, a boolean, null, a list of   *)
(* upgrade ids or an object.  game holds what the constructor loaded, the  *)
(* screen, whether a spawner exists and whether a handler threw.           *)
(***************************************************************************)
JsNum(k) == [t |-> "num", n |-> k, b |-> FALSE, l |-> << >>]
JsBool(v) == [t |-> "bool", n |-> 0, b |-> v, l |-> << >>]
JsList(q) == [t |-> "list", n |-> 0, b |-> FALSE, l |-> q]
JsNull == [t |-> "null", n |-> 0, b |-> FALSE, l |-> << >>]
JsObject == [t |-> "obj", n |-> 0, b |-> FALSE, l |-> << >>]

StoredJson(v) == [kind |-> "json", val |-> v]
NotStored == { [kind |-> k, val |-> JsNull] : k \in {"absent", "corrupt"} }

\* utils.js loadData: the default when getItem returns null or JSON.parse
\* throws, the parsed value otherwise
loadData(stored, defaultValue) ==
    IF stored.kind = "json" THEN stored.val ELSE defaultValue

Truthy(v) ==
    CASE v.t = "num" -> v.n # 0
      [] v.t = "bool" -> v.b
      [] v.t = "null" -> FALSE
      [] OTHER -> TRUE

\* CHARACTERS[idx] is defined
HasCharacter(idx) == idx.t = "num" /\ idx.n \in 0..(Len(CHARACTERS) - 1)

\* "for (const upg of this.upgrades)" with this.spawner null ends normally
UpgradesApply(u) ==
    /\ u.t = "list"
    /\ \A i \in 1..Len(u.l) : u.l[i] # "more_pickups"

StoredStates ==
    [ selectedChar : NotStored \cup { StoredJson(v) : v \in {JsNum(0), JsNum(3), JsNum(7), JsNull} },
      attributesMode : NotStored \cup { StoredJson(v) : v \in {JsBool(TRUE), JsBool(FALSE)} },
      upgrades : NotStored \cup { StoredJson(v) :
                    v \in {JsList(<< >>), JsList(<<"small_hitbox">>),
                           JsList(<<"more_pickups">>), JsNull} },
      achievements : NotStored \cup { StoredJson(v) : v \in {JsObject, JsNull} } ]

\* the Game constructor
Persist_newGame(stored) ==
    [ state |-> "title",
      selectedCharIdx |-> loadData(stored.selectedChar, JsNum(0)),
      attributesMode |-> loadData(stored.attributesMode, JsBool(TRUE)),
      upgrades |-> loadData(stored.upgrades, JsList(<< >>)),
      achievements |-> loadData(stored.achievements, JsObject),
      threw |-> FALSE ]

\* Game.startLevel on the new game: _applyUpgrades runs with spawner null
Persist_startLevel(g) ==
    IF UpgradesApply(g.upgrades) THEN [g EXCEPT !.state = "playing"]
    ELSE [g EXCEPT !.threw = TRUE]

\* Game._updatePlaying: the character's pickupFreqMult is read in every
\* tick; a tick that ends in game over runs _checkAchievements
Persist_updatePlaying(g, over) ==
    IF Truthy(g.attributesMode) /\ ~HasCharacter(g.selectedCharIdx)
    THEN [g EXCEPT !.threw = TRUE]
    ELSE IF ~over THEN g
    ELSE IF g.achievements.t = "null" THEN [g EXCEPT !.state = "gameover", !.threw = TRUE]
    ELSE [g EXCEPT !.state = "gameover"]

InitPersist ==
    /\ octx \in StoredStates
    /\ game = [state |-> "loading"]
    /\ player = NewPlayer(0, FALSE)
    /\ pop = << >>
    /\ psteps = 0
    /\ owl = [threat |-> 0]
    /\ osteps = 0
    /\ oop = << >>
    /\ timers = << >>
    /\ frames = 0
    /\ runA = << >>
    /\ runB = << >>
    /\ ticks = 0
    /\ pat = << >>
    /\ coll = << >>

PersistStep(g) ==
    /\ game' = g
    /\ UNCHANGED <<player, psteps, pop, owl, octx, osteps, oop, timers, frames, runA,
                   runB, ticks, pat, coll>>

PConstruct == game.state = "loading" /\ PersistStep(Persist_newGame(octx))

PStartLevel ==
    /\ game.state = "title"
    /\ ~game.threw
    /\ PersistStep(Persist_startLevel(game))

PersistTick ==
    /\ game.state = "playing"
    /\ ~game.threw
    /\ \E over \in BOOLEAN : PersistStep(Persist_updatePlaying(game, over))

NextPersist == PConstruct \/ PStartLevel \/ PersistTick

SpecPersist == InitPersist /\ [][NextPersist]_vars

\* C32: a key that is absent or unparseable loads as its default, and for
\* every stored value constructing the game, starting a level and running
\* a tick do not throw
C32_PersistedStateNeverFatal ==
    game.state # "loading" =>
        /\ octx.selectedChar.kind # "json" => game.selectedCharIdx = JsNum(0)
        /\ octx.attributesMode.kind # "json" => game.attributesMode = JsBool(TRUE)
        /\ octx.upgrades.kind # "json" => game.upgrades = JsList(<< >>)
        /\ octx.achievements.kind # "json" => game.achievements = JsObject
        /\ ~game.threw

(***************************************************************************)
(* input.js: the press buffer.  runB is the InputHandler: keys, the        *)
(* buffer flags, and for each code the delays (ms) of the expiry           *)
(* callbacks still pending, newest last, with live telling whether         *)
(* _bufferTimers[code] refers to the newest of them.  The keyboard and     *)
(* the touch buffer are two maps with the same code; a touch code stands   *)
(* for an entry of _touchBuffer.  runA is history: the last operation,     *)
(* its code, what consumeBuffer returned, the handler before it, and per   *)
(* code the ms since it was last buffered (-1: never), how often           *)
(* consumeBuffer has returned true since, and the delay that was left on   *)
(* the timer this buffering cleared (-1: none).  ticks is the time         *)
(* elapsed, psteps the number of events and polls.                         *)
(***************************************************************************)
InputCodes == {"Space", "TouchTap"}
BUFFER_DURATION == 150

NewInput ==
    [ keys |-> [c \in InputCodes |-> FALSE],
      buffer |-> [c \in InputCodes |-> FALSE],
      pending |-> [c \in InputCodes |-> << >>],
      live |-> [c \in InputCodes |-> FALSE] ]

\* clearTimeout(this._bufferTimers[code])
Input_clearTimeout(I, code) ==
    IF I.live[code]
    THEN [I EXCEPT !.pending[code] = SubSeq(@, 1, Len(@) - 1), !.live[code] = FALSE]
    ELSE I

\* a variant that arms the new timer without clearing the old one
bufferPressKeepsTimer(I, code) ==
    [I EXCEPT !.buffer[code] = TRUE,
              !.pending[code] = Append(@, BUFFER_DURATION),
              !.live[code] = TRUE]

\* InputHandler._bufferPress and _bufferTouch
bufferPress(I, code) ==
    [Input_clearTimeout(I, code) EXCEPT
        !.buffer[code] = TRUE,
        !.pending[code] = Append(Input_clearTimeout(I, code).pending[code],
                                 BUFFER_DURATION),
        !.live[code] = TRUE]

\* InputHandler._onKeyDown
onKeyDown(I, code) ==
    IF ~I.keys[code] THEN [bufferPress(I, code) EXCEPT !.keys[code] = TRUE]
    ELSE I

\* InputHandler._onKeyUp
onKeyUp(I, code) == [I EXCEPT !.keys[code] = FALSE]

\* InputHandler.consumeBuffer: the handler afterwards; it returns true
\* exactly if the entry was set
consumeBuffer(I, code) ==
    IF I.buffer[code]
    THEN [Input_clearTimeout(I, code) EXCEPT !.buffer[code] = FALSE]
    ELSE I

\* the expiry callbacks whose delay runs out while ms pass
Input_timePasses(I, ms) ==
    [ keys |-> I.keys,
      buffer |-> [c \in InputCodes |->
                    I.buffer[c] /\ ~(\E i \in 1..Len(I.pending[c]) : I.pending[c][i] <= ms)],
      pending |-> [c \in InputCodes |-> RunDown(I.pending[c], ms)],
      live |-> [c \in InputCodes |->
                    /\ I.live[c]
                    /\ I.pending[c] # << >>
                    /\ I.pending[c][Len(I.pending[c])] > ms] ]

InitInput ==
    /\ runB = NewInput
    /\ runA = [op |-> "new", code |-> "none", result |-> FALSE, before |-> NewInput,
               age |-> [c \in InputCodes |-> 0 - 1],
               consumed |-> [c \in InputCodes |-> 0],
               cleared |-> [c \in InputCodes |-> 0 - 1]]
    /\ ticks = 0
    /\ psteps = 0
    /\ game = [state |-> "title"]
    /\ player = NewPlayer(0, FALSE)
    /\ pop = << >>
    /\ owl = [threat |-> 0]
    /\ octx = << >>
    /\ osteps = 0
    /\ oop = << >>
    /\ timers = << >>
    /\ frames = 0
    /\ pat = << >>
    /\ coll = << >>

InputEvent(name, code, I, result, buffered) ==
    /\ psteps < MaxInputOps
    /\ psteps' = psteps + 1
    /\ runB' = I
    /\ runA' = [op |-> name, code |-> code, result |-> result, before |-> runB,
                age |-> IF buffered THEN [runA.age EXCEPT ![code] = 0] ELSE runA.age,
                consumed |-> IF buffered THEN [runA.consumed EXCEPT ![code] = 0]
                             ELSE IF result THEN [runA.consumed EXCEPT ![code] = @ + 1]
                             ELSE runA.consumed,
                cleared |-> IF buffered
                            THEN [runA.cleared EXCEPT ![code] =
                                     IF runB.live[code]
                                     THEN runB.pending[code][Len(runB.pending[code])]
                                     ELSE 0 - 1]
                            ELSE runA.cleared]
    /\ UNCHANGED <<player, pop, game, owl, octx, osteps, oop, timers, frames, ticks,
                   pat, coll>>

\* a keydown event: the first of a press, or a repeat while the key is held
IKeyDown ==
    \E I \in {onKeyDown(runB, "Space")} :
       InputEvent("keydown", "Space", I, FALSE, I.pending # runB.pending)

IKeyUp ==
    /\ runB.keys["Space"]
    /\ InputEvent("keyup", "Space", onKeyUp(runB, "Space"), FALSE, FALSE)

\* a tap: _onTouchEnd or _onPointerDown calls _bufferTouch('TouchTap')
ITouch == InputEvent("touch", "TouchTap", bufferPress(runB, "TouchTap"), FALSE, TRUE)

\* the game polls a code
IConsume ==
    \E code \in InputCodes :
       InputEvent("consume", code, consumeBuffer(runB, code), runB.buffer[code], FALSE)

ITimePasses ==
    /\ ticks < MaxInputTime
    /\ \E ms \in {50, 100} :
          /\ runB' = Input_timePasses(runB, ms)
          /\ runA' = [runA EXCEPT !.op = "time", !.result = FALSE, !.before = runB,
                                  !.age = [c \in InputCodes |->
                                             IF runA.age[c] >= 0 THEN runA.age[c] + ms
                                             ELSE runA.age[c]]]
          /\ ticks' = ticks + ms
    /\ UNCHANGED <<player, psteps, pop, game, owl, octx, osteps, oop, timers, frames,
                   pat, coll>>

NextInput == IKeyDown \/ IKeyUp \/ ITouch \/ IConsume \/ ITimePasses

SpecInput == InitInput /\ [][NextInput]_vars

\* C33: consumeBuffer returns true at most once per buffered press and only
\* less than 150 ms after it; a keydown of a held key changes nothing; and
\* the entry of a press not yet consumed stays set until its own 150 ms
\* have passed, whatever timers earlier presses armed
C33_BufferedOnce ==
    /\ \A c \in InputCodes :
          /\ runA.consumed[c] <= 1
          /\ (runA.age[c] >= 0 /\ runA.age[c] < BUFFER_DURATION /\ runA.consumed[c] = 0)
                => runB.buffer[c]
          /\ runA.age[c] >= BUFFER_DURATION => ~runB.buffer[c]
          /\ Len(runB.pending[c]) <= 1
    /\ (runA.op = "consume" /\ runA.result) =>
          (runA.age[runA.code] >= 0 /\ runA.age[runA.code] < BUFFER_DURATION)
    /\ (runA.op = "keydown" /\ runA.before.keys[runA.code]) => runB = runA.before

\* a code buffered again while its timer was pending is consumed after
\* the moment the cleared timer would have fired
C33_Witness ==
    /\ runA.op = "consume"
    /\ runA.result
    /\ runA.cleared[runA.code] > 0
    /\ runA.age[runA.code] >= runA.cleared[runA.code]

(***************************************************************************)
(* Attribute mode and the characters' multipliers.  The mode and the       *)
(* character are chosen on the character screen; a level creates the       *)
(* player from them; a tick of 100 ms reads the pickup, shadow-warning     *)
(* and score multipliers and adds to the score (streak 1).  game.used are  *)
(* the multipliers the last tick passed on, in thousandths.                *)
(***************************************************************************)
\* Game._updatePlaying: the multipliers passed to the spawner, the owl and
\* the score
Attr_multipliers(g) ==
    [ pickupFreq |-> IF g.attributesMode
                     THEN OrOne(CHARACTERS[g.selectedCharIdx + 1].pickupFreqMult)
                     ELSE 1000,
      shadowWarn |-> ShadowWarnMult(g),
      score |-> IF g.attributesMode
                THEN OrOne(CHARACTERS[g.selectedCharIdx + 1].scoreMult)
                ELSE 1000 ]

\* "this.score += Math.floor(player.speed * dt * 0.1 * this.streak * scoreMult)"
Attr_scored(g, p, dtMs, used) ==
    [g EXCEPT !.used = used,
              !.score = g.score + (((p.speed * dtMs) \div 1000) * used.score) \div 10000000]

Attr_updatePlaying(g, p, dtMs) == Attr_scored(g, p, dtMs, Attr_multipliers(g))

NoMultipliers == [pickupFreq |-> 0, shadowWarn |-> 0, score |-> 0]

InitAttr ==
    /\ game = [state |-> "charselect", selectedCharIdx |-> 0, attributesMode |-> TRUE,
               score |-> 0, used |-> NoMultipliers]
    /\ player = NewPlayer(0, TRUE)
    /\ ticks = 0
    /\ psteps = 0
    /\ pop = << >>
    /\ owl = [threat |-> 0]
    /\ octx = << >>
    /\ osteps = 0
    /\ oop = << >>
    /\ timers = << >>
    /\ frames = 0
    /\ runA = << >>
    /\ runB = << >>
    /\ pat = << >>
    /\ coll = << >>

AttrStep(g, p) ==
    /\ game' = g
    /\ player' = p
    /\ UNCHANGED <<psteps, pop, owl, octx, osteps, oop, timers, frames, runA, runB,
                   pat, coll>>

\* the character screen: Tab toggles the mode, Enter confirms a character
AToggle ==
    /\ game.state = "charselect"
    /\ AttrStep([game EXCEPT !.attributesMode = ~game.attributesMode], player)
    /\ UNCHANGED ticks

ASelect ==
    /\ game.state = "charselect"
    /\ \E c \in 0..(Len(CHARACTERS) - 1) :
          AttrStep([game EXCEPT !.selectedCharIdx = c], player)
    /\ UNCHANGED ticks

\* back on the title: Play starts a level
AStartLevel ==
    /\ game.state = "charselect"
    /\ AttrStep([game EXCEPT !.state = "playing", !.score = 0, !.used = NoMultipliers],
                NewPlayer(game.selectedCharIdx, game.attributesMode))
    /\ ticks' = 0

ATick ==
    /\ game.state = "playing"
    /\ ticks < MaxAttrTicks
    /\ \E p \in {Player_update(player, 100)} :
          AttrStep(Attr_updatePlaying(game, p, 100), p)
    /\ ticks' = ticks + 1

\* the level ends and the player returns to the character screen
ALeave ==
    /\ game.state = "playing"
    /\ AttrStep([game EXCEPT !.state = "charselect"], player)
    /\ UNCHANGED ticks

NextAttr == AToggle \/ ASelect \/ AStartLevel \/ ATick \/ ALeave

SpecAttr == InitAttr /\ [][NextAttr]_vars

\* every multiplier the player and the last tick used is 1.0
NeutralMultipliers ==
    /\ player.baseSpeed = 280000
    /\ player.jumpPower = 0 - 520000
    /\ player.hangMultiplier = 1000
    /\ player.stunMult = 1000
    /\ player.invulDuration = 1200
    /\ player.accelMult = 1000
    /\ player.dashCooldownMax = 3000
    /\ player.dashDistMult = 1000
    /\ game.used \in {NoMultipliers,
                      [pickupFreq |-> 1000, shadowWarn |-> 1000, score |-> 1000]}

\* C34 as stated: in a level played with attribute mode on, every
\* multiplier is neutral
C34_NeutralWhenOn ==
    (game.state = "playing" /\ game.attributesMode) => NeutralMultipliers

\* C34 amended: the characters' multipliers are applied only when attribute
\* mode is on; in a level played with the mode off every multiplier is
\* neutral, for all four characters
C34_NeutralWhenOff ==
    (game.state = "playing" /\ ~game.attributesMode) => NeutralMultipliers

\* The Scout has played a tick with the mode off
C34_Witness ==
    /\ game.state = "playing"
    /\ ~game.attributesMode
    /\ game.selectedCharIdx = 3
    /\ game.used.score = 1000
    /\ game.score > 0


(***************************************************************************)
(* NPCs and the owl's snatches in a level.  runB holds game.npcs, the      *)
(* spawner's npcTimer and game.npcSnatchTimer.  An NPC's y, which only the *)
(* drawing reads, is left out.  A step is one frame of the playing game    *)
(* with nothing in the player's row and no key pressed; the browser        *)
(* delivers frames of 100 ms and, psteps counting them, a few of 16 ms.    *)
(* runA is history: for each strike line of owl.swoopLines who pushed it,  *)
(* and who pushed the lines that satisfied the last capture check.         *)
(***************************************************************************)
\* the Math.random() outcomes explored, in thousandths
NpcRandoms == {0, 900}

\* the lanes an NPC is spawned on
NpcLanes == {1, 2}

\* new NPC(...): the constructor draws the lane itself
NewNPC(lane, rnd) ==
    [ x |-> lanePositions[lane], lane |-> lane, targetLane |-> lane,
      active |-> TRUE, snatched |-> FALSE, snatchTimer |-> 0,
      laneChangeTimer |-> 1000 + 2 * rnd ]

\* NPC.update reaches "Random lane changes" with the timer run out
NPC_changesLane(n, dtMs) == ~n.snatched /\ n.laneChangeTimer - dtMs <= 0

\* NPC.update; rnd and dir are the draws of a lane change
NPC_update(n, dtMs, rnd, dir) ==
    IF n.snatched
    THEN [n EXCEPT !.snatchTimer = n.snatchTimer + dtMs,
                   !.active = ~(n.snatchTimer + dtMs >= 800)]
    ELSE LET changed == NPC_changesLane(n, dtMs)
             target == IF changed THEN Max(0, Min(4, n.targetLane + dir))
                       ELSE n.targetLane
         IN [n EXCEPT !.laneChangeTimer = IF changed THEN 1500 + (2500 * rnd) \div 1000
                                          ELSE n.laneChangeTimer - dtMs,
                      !.targetLane = target,
                      !.x = lerp(n.x, lanePositions[target], 6 * dtMs)]

\* Game._updatePlaying, "NPCs: scroll down"
Snatch_npcsUpdated(N, dtMs, rnd, dir) ==
    [N EXCEPT !.npcs = SelectSeq([i \in 1..Len(N.npcs) |->
                                     NPC_update(N.npcs[i], dtMs, rnd, dir)],
                                 LAMBDA n : n.active)]

\* Spawner.update, "NPC spawning"
Spawner_spawnsNPC(N, dtMs) == N.npcTimer + dtMs >= 8000 /\ Len(N.npcs) < 3

Snatch_spawned(N, dtMs, lane, rnd) ==
    IF Spawner_spawnsNPC(N, dtMs)
    THEN [N EXCEPT !.npcTimer = 0, !.npcs = Append(N.npcs, NewNPC(lane, rnd))]
    ELSE [N EXCEPT !.npcTimer = N.npcTimer + dtMs]

\* the NPCs _trySnatchNPC chooses among
Victims(npcs) == {i \in 1..Len(npcs) : npcs[i].active /\ ~npcs[i].snatched}

\* Game._trySnatchNPC with victim v: S holds the NPC state n and the owl o
Game_trySnatchNPC(S, v) ==
    IF Victims(S.n.npcs) = {} THEN S
    ELSE [S EXCEPT !.n.npcs[v].snatched = TRUE,
                   !.n.npcs[v].snatchTimer = 0,
                   !.o.swoopLines = Append(S.o.swoopLines,
                                           [x |-> S.n.npcs[v].x, alpha |-> 800])]

\* Game._updatePlaying, "NPC snatch"
Snatch_fires(N, dtMs) == N.npcSnatchTimer - dtMs <= 0

Snatch_timer(S, dtMs, v, rnd) ==
    IF Snatch_fires(S.n, dtMs)
    THEN [Game_trySnatchNPC(S, v) EXCEPT !.n.npcSnatchTimer = 5000 + 8 * rnd]
    ELSE [S EXCEPT !.n.npcSnatchTimer = S.n.npcSnatchTimer - dtMs]

InitSnatch ==
    /\ \E W0 \in {Game_startLevel([g |-> NewGame(0, TRUE), p |-> NewPlayer(0, TRUE),
                                   o |-> NewOwl, t |-> NoTimers], 1)} :
          /\ game = W0.g
          /\ player = W0.p
          /\ owl = W0.o
          /\ timers = W0.t
    /\ \E rnd \in NpcRandoms :
          runB = [npcs |-> << >>, npcTimer |-> 0, npcSnatchTimer |-> 6000 + 6 * rnd]
    /\ runA = [origins |-> << >>, capturedBy |-> {}]
    /\ ticks = 0
    /\ psteps = 0
    /\ pop = << >>
    /\ octx = << >>
    /\ osteps = 0
    /\ oop = << >>
    /\ frames = 0
    /\ pat = << >>
    /\ coll = << >>

\* history: the origins of the lines that Owl.update keeps
KeptOrigins(lines, origins, dtMs) ==
    LET pairs == [i \in 1..Len(lines) |-> [from |-> origins[i], alpha |-> lines[i].alpha]]
        kept == SelectSeq(pairs, LAMBDA q : q.alpha - 2 * dtMs > 0)
    IN [i \in 1..Len(kept) |-> kept[i].from]

\* history: the origins after the timers ran (o to o1, an executed swoop
\* pushes its lines) and Owl.update faded the lines
OriginsChecked(run, o, o1, dtMs) ==
    KeptOrigins(o1.swoopLines,
                run.origins \o [i \in 1..(Len(o1.swoopLines) - Len(o.swoopLines)) |-> "swoop"],
                dtMs)

\* history: who pushed the lines that satisfy Owl.checkSwoopCapture
CapturedBy(origins, p, o) ==
    IF p.invulTimer > 0 THEN {}
    ELSE { origins[i] : i \in { k \in 1..Len(o.swoopLines) :
              /\ o.swoopLines[k].alpha > 700
              /\ Abs(Player_getHitbox(p).x + Player_getHitbox(p).w \div 2
                       - o.swoopLines[k].x) < 3000 } }

SnatchHistory(origins, Ws, S) ==
    [ origins |-> IF S.o.swoopLines = << >> THEN << >>
                  ELSE origins \o [i \in 1..(Len(S.o.swoopLines) - Len(Ws.o.swoopLines)) |-> "npc"],
      capturedBy |-> CapturedBy(origins, Ws.p, Ws.o) ]

SnTick ==
    /\ ticks < MaxSnatchTicks
    /\ game.state = "playing"
    /\ \E rdt \in (IF psteps < MaxFastFrames THEN {16, 100} ELSE {100}) :
       \E Wt \in {Game_timePasses([World EXCEPT !.g.lastTick = NoTick], rdt)} :
       \E srnd \in (IF SwoopTriggers(Wt.o, rdt) THEN SwoopRandom(Min(Wt.g.level, 8))
                    ELSE {NoRandom}) :
       \E Ws \in {TickShadow(DodgeBefore(Wt, "none", srnd, rdt), rdt)} :
       \E W2 \in {DodgeEnd(Ws)} :
       \E rnd \in (IF \/ \E i \in 1..Len(runB.npcs) : NPC_changesLane(runB.npcs[i], rdt)
                      \/ Spawner_spawnsNPC(runB, rdt)
                      \/ Snatch_fires(runB, rdt)
                   THEN NpcRandoms ELSE {0}) :
       \E dir \in (IF \E i \in 1..Len(runB.npcs) : NPC_changesLane(runB.npcs[i], rdt)
                   THEN {0 - 1, 1} ELSE {1}) :
       \E lane \in (IF Spawner_spawnsNPC(runB, rdt) THEN NpcLanes ELSE {2}) :
       \E N1 \in {Snatch_spawned(Snatch_npcsUpdated(runB, rdt, rnd, dir), rdt, lane, rnd)} :
       \E v \in (IF Victims(N1.npcs) = {} THEN {0} ELSE Victims(N1.npcs)) :
       \E S \in {IF W2.g.state = "playing"
                 THEN Snatch_timer([n |-> N1, o |-> W2.o], rdt, v, rnd)
                 ELSE [n |-> N1, o |-> W2.o]} :
          /\ game' = W2.g
          /\ player' = W2.p
          /\ owl' = S.o
          /\ timers' = W2.t
          /\ runB' = S.n
          /\ runA' = SnatchHistory(OriginsChecked(runA, owl, Wt.o, rdt), Ws, S)
          /\ psteps' = IF rdt = 16 THEN psteps + 1 ELSE psteps
    /\ ticks' = ticks + 1
    /\ UNCHANGED <<pop, octx, osteps, oop, frames, pat, coll>>

NextSnatch == SnTick

SpecSnatch == InitSnatch /\ [][NextSnatch]_vars

\* C36: the capture check succeeds only on a strike line that an executed
\* swoop pushed for one of its non-decoy shadows, never on a line that the
\* snatch of an NPC pushed
C36_CapturedOnlyBySwoop ==
    game.lastTick.captured => "swoop" \in runA.capturedBy


(***************************************************************************)
(* Pausing a level.  A step is one pass of loop(): the time since the last *)
(* frame passes (the pending setTimeout callbacks run), then Game.update.  *)
(* A playing frame comes 100 ms after the last one, with nothing, a log or *)
(* an ice patch in the player's row, or with Escape pressed; a paused      *)
(* frame comes after 100 ms or, the tab having been in the background,     *)
(* after 2000 ms, with Escape pressed or not.  runA is history: the        *)
(* gameplay state when the pause began, and whether the last frame         *)
(* resumed play.                                                           *)
(***************************************************************************)
PauseObstacleLists ==
    { << >> } \cup { << NewObstacle(t, 2, lanePositions[2], PlayerY, FALSE) >> :
                       t \in {"log", "ice_patch"} }

\* the gameplay state of the owl and the player
Gameplay(o, p) ==
    [ swoopActive |-> o.swoopActive, shadows |-> o.shadows,
      swoopLines |-> o.swoopLines, swoopCooldown |-> o.swoopCooldown,
      threat |-> o.threat, player |-> p ]

InitPause ==
    /\ \E W0 \in {Game_startLevel([g |-> NewGame(0, FALSE), p |-> NewPlayer(0, FALSE),
                                   o |-> NewOwl, t |-> NoTimers], 1)} :
          /\ game = W0.g
          /\ player = W0.p
          /\ owl = W0.o
          /\ timers = W0.t
          /\ runA = [begin |-> Gameplay(W0.o, W0.p), resumed |-> FALSE]
    /\ ticks = 0
    /\ psteps = 0
    /\ pop = << >>
    /\ octx = << >>
    /\ osteps = 0
    /\ oop = << >>
    /\ frames = 0
    /\ runB = << >>
    /\ pat = << >>
    /\ coll = << >>

PauseStep(W2) ==
    /\ game' = W2.g
    /\ player' = W2.p
    /\ owl' = W2.o
    /\ timers' = W2.t
    /\ runA' = [begin |-> IF game.state = "playing" /\ W2.g.state = "paused"
                          THEN Gameplay(W2.o, W2.p) ELSE runA.begin,
                resumed |-> game.state = "paused" /\ W2.g.state = "playing"]
    /\ frames' = frames + 1
    /\ UNCHANGED <<psteps, pop, octx, osteps, oop, runB, ticks, pat, coll>>

\* a frame of the playing game
PauPlay ==
    /\ frames < MaxPauseFrames
    /\ game.state = "playing"
    /\ \E obstacles \in PauseObstacleLists :
       \E Wa \in {[World EXCEPT !.g.lastTick = NoTick]} :
       \E rnd \in (IF SwoopTriggers(Game_timePasses(Wa, 100).o, 100)
                   THEN SwoopRandom(Min(Wa.g.level, 8)) ELSE {NoRandom}) :
          PauseStep(Frame(Wa, 100, "none", {}, obstacles, << >>, rnd))

\* a frame in which Escape was pressed: the game pauses, or resumes
PauEscape ==
    /\ frames < MaxPauseFrames
    /\ game.state \in {"playing", "paused"}
    /\ \E rdt \in (IF game.state = "paused" THEN WaitSet ELSE {100}) :
          PauseStep(Frame([World EXCEPT !.g.lastTick = NoTick], rdt, "Escape", {},
                          << >>, << >>, NoRandom))

\* a frame of the paused game with no key pressed
PauWait ==
    /\ frames < MaxPauseFrames
    /\ game.state = "paused"
    /\ \E rdt \in WaitSet :
          PauseStep(Frame(World, rdt, "none", {}, << >>, << >>, NoRandom))

NextPause == PauPlay \/ PauEscape \/ PauWait

SpecPause == InitPause /\ [][NextPause]_vars

\* C37: while the game is paused, and when play resumes, the owl's
\* swoopActive, shadows, strike lines, cooldown and threat and the player's
\* fields are what they were when the pause began
C37_PauseFreezesGameplay ==
    (game.state = "paused" \/ runA.resumed) => Gameplay(owl, player) = runA.begin


(***************************************************************************)
(* One owl and the browser's timers.  timers is the list of the delays     *)
(* left of the callbacks this owl has scheduled with setTimeout and that   *)
(* have neither run nor been cleared; owl.swoopTimeout is the handle the   *)
(* owl keeps, the last one scheduled.  The steps are a frame of the        *)
(* playing game (time passes, then Owl.update), a stun hit, cancelSwoop    *)
(* and time passing with no call.  runA is history: the warnings begun.    *)
(***************************************************************************)
ContDifficulties == {1, 3}

\* setTimeout and clearTimeout of a call that took the owl from o to o1
Scheduled(pending, o, o1) ==
    IF ~o.swoopActive /\ o1.swoopActive THEN Append(pending, o1.swoopTimeout)
    ELSE IF o.swoopTimeout # NoTimeout /\ o1.swoopTimeout = NoTimeout /\ pending # << >>
    THEN SubSeq(pending, 1, Len(pending) - 1)
    ELSE pending

\* ms of wall-clock time pass: every callback whose delay has run out calls
\* _executeSwoops
Cont_timePasses(o, pending, ms) ==
    [ o |-> IF \E i \in 1..Len(pending) : pending[i] <= ms
            THEN Owl_executeSwoops(Owl_timePasses(o, ms))
            ELSE Owl_timePasses(o, ms),
      pending |-> RunDown(pending, ms) ]

InitCont ==
    /\ owl = NewOwl
    /\ timers = << >>
    /\ octx \in [difficulty : ContDifficulties, shadowWarnMult : {1000}]
    /\ osteps = 0
    /\ runA = [begun |-> 0, op |-> "new"]
    /\ player = NewPlayer(0, FALSE)
    /\ psteps = 0
    /\ pop = << >>
    /\ game = [state |-> "playing"]
    /\ oop = << >>
    /\ frames = 0
    /\ runB = << >>
    /\ ticks = 0
    /\ pat = << >>
    /\ coll = << >>

\* a call that takes the owl, after the timers ran to T, to o2
ContStep(name, T, o2) ==
    /\ osteps < MaxContSteps
    /\ owl' = o2
    /\ timers' = Scheduled(T.pending, T.o, o2)
    /\ runA' = [begun |-> IF ~T.o.swoopActive /\ o2.swoopActive
                          THEN runA.begun + 1 ELSE runA.begun,
                op |-> name]
    /\ osteps' = osteps + 1
    /\ UNCHANGED <<player, psteps, pop, game, octx, oop, frames, runB, ticks, pat, coll>>

CUpdate ==
    \E rdt \in WaitSet :
    \E T \in {Cont_timePasses(owl, timers, rdt)} :
    \E rnd \in (IF SwoopTriggers(T.o, CapDt(rdt)) THEN SwoopRandom(octx.difficulty)
                ELSE {NoRandom}) :
       ContStep("update", T,
                Owl_update(T.o, CapDt(rdt), octx.difficulty, octx.shadowWarnMult, rnd))

\* a stun hit: owl.increaseThreat(0.12)
CIncreaseThreat ==
    ContStep("increaseThreat", [o |-> owl, pending |-> timers],
             increaseThreat(owl, STUN_HIT_THREAT))

CCancelSwoop ==
    ContStep("cancelSwoop", [o |-> owl, pending |-> timers], cancelSwoop(owl))

CWait ==
    \E ms \in WaitSet :
    \E T \in {Cont_timePasses(owl, timers, ms)} :
       ContStep("wait", T, T.o)

NextCont == CUpdate \/ CIncreaseThreat \/ CCancelSwoop \/ CWait

SpecCont == InitCont /\ [][NextCont]_vars

\* C39: an owl's shadows are non-empty only while swoopActive is true and
\* swoopPhase is 'shadow'; swoopActive is true exactly when one execution
\* continuation is pending; and never more than one is pending
C39_OneContinuation ==
    /\ owl.shadows # << >> => (owl.swoopActive /\ owl.swoopPhase = "shadow")
    /\ owl.swoopActive <=> Len(timers) = 1
    /\ Len(timers) <= 1

\* a second warning, begun after the first was cancelled or had executed,
\* is in progress with its shadows and its one continuation
C39_Witness ==
    /\ runA.begun >= 2
    /\ owl.swoopActive
    /\ owl.shadows # << >>
    /\ timers = << owl.swoopTimeout >>


(***************************************************************************)
(* A level from its start to its end.  runB holds game.distance (in        *)
(* millionths of a metre), game.levelLength and the delay left of          *)
(* _levelComplete's timeout.  A step is a frame: of the playing game with  *)
(* no key pressed, the browser delivering its frames at the interval       *)
(* octx.rdt, with nothing, a log or a snowdrift in the player's row        *)
(* (ticks counts the frames in which something may be there); or of the    *)
(* finished level.  runA is history: distance before the last tick.        *)
(***************************************************************************)
LEVEL_LENGTHS == <<600, 900, 1200, 1600, 2000, 2500, 3000>>

LevelObstacleLists ==
    { << >> } \cup { << NewObstacle(t, 2, lanePositions[2], PlayerY, FALSE) >> :
                       t \in {"log", "snowdrift"} }

\* Game.startLevel: levelLength and distance
NewLevel(levelNum) ==
    [ distance |-> 0,
      levelLength |-> 1000000 * LEVEL_LENGTHS[Min(levelNum - 1, Len(LEVEL_LENGTHS) - 1) + 1],
      upgradeTimeout |-> NoTimeout ]

\* Game._updatePlaying, "Scroll world": speed is the player's after Player.update
Level_scrolled(L, speed, dtMs) ==
    [L EXCEPT !.distance = L.distance + (speed * dtMs) \div 3]

\* Game._levelComplete
Game_levelComplete(V) ==
    [V EXCEPT !.W.g = Game_checkAchievements([V.W.g EXCEPT !.state = "levelcomplete"]),
              !.W.o = cancelSwoop(V.W.o),
              !.L.upgradeTimeout = 2000]

\* Game._updatePlaying, "Level complete"; a tick that ended the game has returned
Level_checked(V) ==
    IF V.W.g.state = "playing" /\ V.L.distance >= V.L.levelLength
    THEN Game_levelComplete(V) ELSE V

\* the callback of _levelComplete's timeout, once ms have passed
Level_timePasses(V, ms) ==
    IF V.L.upgradeTimeout = NoTimeout THEN V
    ELSE IF V.L.upgradeTimeout - ms <= 0
         THEN [V EXCEPT !.L.upgradeTimeout = NoTimeout,
                        !.W.g.state = IF V.W.g.state = "levelcomplete" THEN "upgrade"
                                      ELSE V.W.g.state]
         ELSE [V EXCEPT !.L.upgradeTimeout = V.L.upgradeTimeout - ms]

InitLevel ==
    /\ \E W0 \in {Game_startLevel([g |-> NewGame(0, FALSE), p |-> NewPlayer(0, FALSE),
                                   o |-> NewOwl, t |-> NoTimers], 1)} :
          /\ game = W0.g
          /\ player = W0.p
          /\ owl = W0.o
          /\ timers = W0.t
    /\ runB = NewLevel(1)
    /\ octx \in [rdt : {50, 100}]
    /\ runA = [before |-> 0, ticked |-> FALSE]
    /\ ticks = 0
    /\ psteps = 0
    /\ pop = << >>
    /\ osteps = 0
    /\ oop = << >>
    /\ frames = 0
    /\ pat = << >>
    /\ coll = << >>

LevelStep(V, ticked) ==
    /\ game' = V.W.g
    /\ player' = V.W.p
    /\ owl' = V.W.o
    /\ timers' = V.W.t
    /\ runB' = V.L
    /\ runA' = [before |-> runB.distance, ticked |-> ticked]
    /\ UNCHANGED <<psteps, pop, octx, osteps, oop, frames, pat, coll>>

\* a frame of the playing game
LTick ==
    /\ game.state = "playing"
    /\ \E obstacles \in (IF ticks < MaxContactTicks THEN LevelObstacleLists ELSE {<< >>}) :
       \E Wt \in {Game_timePasses([World EXCEPT !.g.lastTick = NoTick], octx.rdt)} :
       \E rnd \in (IF SwoopTriggers(Wt.o, octx.rdt) THEN SwoopRandom(Min(Wt.g.level, 8))
                   ELSE {NoRandom}) :
       \E Wp \in {TickPlayer(TickInput(Wt, "none", {}), octx.rdt)} :
       \E L2 \in {Level_scrolled(runB, Wp.p.speed, octx.rdt)} :
       \E Wo \in {TickOwl(TickBegin(Wp, octx.rdt), octx.rdt, rnd)} :
       \E Ws \in {TickShadow(TickThreat(Wo, octx.rdt), octx.rdt)} :
       \E Wc \in {TickCollisions(Ws, obstacles)} :
       \E W2 \in {TickEnd(TickPickups(Wc, << >>))} :
       \E V \in {Level_checked([W |-> W2, L |-> L2])} :
          LevelStep(V, TRUE)
    /\ ticks' = IF ticks < MaxContactTicks THEN ticks + 1 ELSE ticks

\* a frame after the level is complete: only the timers run
LWait ==
    /\ game.state = "levelcomplete"
    /\ \E ms \in WaitSet :
       \E V \in {Level_timePasses([W |-> World, L |-> runB], ms)} :
          LevelStep(V, FALSE)
    /\ UNCHANGED ticks

NextLevel == LTick \/ LWait

SpecLevel == InitLevel /\ [][NextLevel]_vars /\ WF_vars(LTick) /\ WF_vars(LWait)

\* C40: every tick of a playing level increases distance, a playing level
\* eventually leaves 'playing' for 'levelcomplete' or 'gameover', and
\* 'levelcomplete' eventually becomes 'upgrade'
C40_LevelEnds ==
    /\ [](runA.ticked => runB.distance > runA.before)
    /\ (game.state = "playing") ~> (game.state \in {"levelcomplete", "gameover"})
    /\ (game.state = "levelcomplete") ~> (game.state = "upgrade")

\* a level in which the player was stunned has been completed and the
\* upgrade screen has come up
C40_Witness ==
    /\ game.state = "upgrade"
    /\ player.stunCount > 0
    /\ runB.distance >= runB.levelLength

====
